---- MODULE Spec2Model ----
(***************************************************************************)
(* FlightControlsService (opennow-stable/src/main/flight): the capture     *)
(* lifecycle of a HID flight-control device, the report decoder, the       *)
(* mapping to a virtual gamepad state and the change detector.             *)
(*                                                                         *)
(* JavaScript numbers that can be fractions are IEEE 754 binary64 values,   *)
(* computed with the roundings of the code's +, -, * and /; numbers that   *)
(* are always integers are integers.  A nullable object field is modelled  *)
(* as a sequence: <<>> is null, <<x>> is the object x.                     *)
(***************************************************************************)
EXTENDS Integers, Sequences, FiniteSets, TLC

(* ------------------------------------------------------------------ *)
(* Bounds of the model                                                   *)
(* ------------------------------------------------------------------ *)

\* Longest raw report the device layer delivers in the lifecycle model.
MaxBufLen == 2

\* Number of device handles the device layer hands out in one run.
MaxHandles == 2

(* ------------------------------------------------------------------ *)
(* Program constants                                                     *)
(* ------------------------------------------------------------------ *)

GAMEPAD_DPAD_UP == 1
GAMEPAD_DPAD_DOWN == 2
GAMEPAD_DPAD_LEFT == 4
GAMEPAD_DPAD_RIGHT == 8

\* Math.max(0, Math.min(3, slot))
MinSlot == 0
MaxSlot == 3

(* ------------------------------------------------------------------ *)
(* Nullable values                                                       *)
(* ------------------------------------------------------------------ *)

None == <<>>
Some(x) == <<x>>
IsNull(o) == o = <<>>
Get(o) == o[1]

\* this.device === null, this.devicePath === null
NoDevice == 0
NoPath == "null"

(* ------------------------------------------------------------------ *)
(* Arithmetic                                                            *)
(* ------------------------------------------------------------------ *)

Max(a, b) == IF a >= b THEN a ELSE b
Min(a, b) == IF a <= b THEN a ELSE b
Abs(a) == IF a >= 0 THEN a ELSE -a

Pow2(n) == 2^n

(* ------------------------------------------------------------------ *)
(* Natural numbers of any size                                           *)
(* ------------------------------------------------------------------ *)

\* A natural number is the sequence of its digits in base 2^15, the least
\* significant first and the most significant not 0; <<>> is 0.  A
\* product of two digits fits the machine integers of the checker.
Base == Pow2(15)

Digit(a, i) == IF i <= Len(a) THEN a[i] ELSE 0

Zeros(n) == [i \in 1..n |-> 0]

RECURSIVE Trim(_)
Trim(a) ==
  IF a # <<>> /\ a[Len(a)] = 0 THEN Trim(SubSeq(a, 1, Len(a) - 1)) ELSE a

RECURSIVE NatOf(_)
NatOf(n) == IF n = 0 THEN <<>> ELSE <<n % Base>> \o NatOf(n \div Base)

RECURSIVE IntOf(_)
IntOf(a) == IF a = <<>> THEN 0 ELSE a[1] + Base * IntOf(Tail(a))

RECURSIVE NatCmpFrom(_, _, _)
NatCmpFrom(a, b, i) ==
  IF i = 0 THEN 0
  ELSE IF a[i] < b[i] THEN -1
  ELSE IF a[i] > b[i] THEN 1
  ELSE NatCmpFrom(a, b, i - 1)

\* -1, 0 or 1 as a < b, a = b or a > b.
NatCmp(a, b) ==
  IF Len(a) < Len(b) THEN -1
  ELSE IF Len(a) > Len(b) THEN 1
  ELSE NatCmpFrom(a, b, Len(a))

RECURSIVE NatAddFrom(_, _, _, _)
NatAddFrom(a, b, i, carry) ==
  IF i > Len(a) /\ i > Len(b)
  THEN IF carry = 0 THEN <<>> ELSE <<carry>>
  ELSE LET t == Digit(a, i) + Digit(b, i) + carry
       IN <<t % Base>> \o NatAddFrom(a, b, i + 1, t \div Base)

NatAdd(a, b) == NatAddFrom(a, b, 1, 0)

RECURSIVE NatSubFrom(_, _, _, _)
NatSubFrom(a, b, i, borrow) ==
  IF i > Len(a) THEN <<>>
  ELSE LET t == a[i] - Digit(b, i) - borrow
       IN IF t < 0
          THEN <<t + Base>> \o NatSubFrom(a, b, i + 1, 1)
          ELSE <<t>> \o NatSubFrom(a, b, i + 1, 0)

\* a - b for a >= b.
NatSub(a, b) == Trim(NatSubFrom(a, b, 1, 0))

RECURSIVE NatMulSmallFrom(_, _, _, _)
NatMulSmallFrom(a, k, i, carry) ==
  IF i > Len(a)
  THEN IF carry = 0 THEN <<>> ELSE <<carry>>
  ELSE LET t == a[i] * k + carry
       IN <<t % Base>> \o NatMulSmallFrom(a, k, i + 1, t \div Base)

\* a * k for one digit k.
NatMulSmall(a, k) == IF k = 0 THEN <<>> ELSE NatMulSmallFrom(a, k, 1, 0)

RECURSIVE NatMulFrom(_, _, _)
NatMulFrom(a, b, i) ==
  IF i > Len(b) THEN <<>>
  ELSE IF b[i] = 0 THEN NatMulFrom(a, b, i + 1)
  ELSE NatAdd(Zeros(i - 1) \o NatMulSmall(a, b[i]), NatMulFrom(a, b, i + 1))

NatMul(a, b) == IF a = <<>> THEN <<>> ELSE NatMulFrom(a, b, 1)

\* a * 2^k
NatShl(a, k) ==
  IF a = <<>> \/ k = 0 THEN a
  ELSE IF k % 15 = 0 THEN Zeros(k \div 15) \o a
  ELSE Zeros(k \div 15) \o NatMulSmall(a, Pow2(k % 15))

RECURSIVE NatDivSmallFrom(_, _, _, _)
NatDivSmallFrom(a, d, i, rem) ==
  IF i = 0 THEN <<>>
  ELSE LET cur == rem * Base + a[i]
       IN Append(NatDivSmallFrom(a, d, i - 1, cur % d), cur \div d)

\* a \div 2^k
NatShr(a, k) ==
  IF k = 0 THEN a
  ELSE IF k \div 15 >= Len(a) THEN <<>>
  ELSE LET high == SubSeq(a, (k \div 15) + 1, Len(a))
       IN IF k % 15 = 0 THEN high
          ELSE Trim(NatDivSmallFrom(high, Pow2(k % 15), Len(high), 0))

\* The number of binary digits of one digit n.
BitLength(n) ==
  IF n < 128
  THEN IF n < 8
       THEN (IF n < 2 THEN n ELSE IF n < 4 THEN 2 ELSE 3)
       ELSE IF n < 32 THEN (IF n < 16 THEN 4 ELSE 5)
       ELSE (IF n < 64 THEN 6 ELSE 7)
  ELSE IF n < 2048
       THEN (IF n < 512 THEN (IF n < 256 THEN 8 ELSE 9)
             ELSE IF n < 1024 THEN 10 ELSE 11)
       ELSE IF n < 8192 THEN (IF n < 4096 THEN 12 ELSE 13)
       ELSE (IF n < 16384 THEN 14 ELSE 15)

\* The number of binary digits of a.
NatBits(a) == IF a = <<>> THEN 0 ELSE 15 * (Len(a) - 1) + BitLength(a[Len(a)])

\* Binary digit i of a, digit 0 the least significant.
NatBit(a, i) == (Digit(a, (i \div 15) + 1) \div Pow2(i % 15)) % 2

\* Some binary digit of a below digit k is 1.
NatLowNonzero(a, k) ==
  \/ \E j \in 1..(k \div 15) : Digit(a, j) # 0
  \/ Digit(a, (k \div 15) + 1) % Pow2(k % 15) # 0

RECURSIVE TrailingZeros(_)
TrailingZeros(n) == IF n % 2 = 1 THEN 0 ELSE 1 + TrailingZeros(n \div 2)

\* The number of 0 digits below the lowest binary 1 of a # 0.
RECURSIVE NatTrailingZeros(_)
NatTrailingZeros(a) ==
  IF a[1] = 0 THEN 15 + NatTrailingZeros(Tail(a)) ELSE TrailingZeros(a[1])

\* The largest digit q with b * q <= cur, from an estimate not below it.
RECURSIVE QuotDigit(_, _, _)
QuotDigit(cur, b, q) ==
  IF NatCmp(NatMulSmall(b, q), cur) > 0 THEN QuotDigit(cur, b, q - 1) ELSE q

\* Long division by a divisor whose top digit is at least 2^14: digits i
\* down to 1 of a are brought down onto rem < b, the quotient digits are
\* put in front of quot; <<quotient, remainder>>, the quotient with 0
\* digits on top where it is short.  The top two digits of the running
\* remainder over the top digit of b overestimate the quotient digit by
\* 2 at most.
RECURSIVE NatDivFrom(_, _, _, _, _)

\* The step of the division for the quotient digit q.
NatDivNext(a, b, i, cur, quot, q) ==
  NatDivFrom(a, b, i - 1, NatSub(cur, NatMulSmall(b, q)), <<q>> \o quot)

\* The step of the division for the running remainder cur.
NatDivDigit(a, b, i, cur, quot) ==
  NatDivNext(a, b, i, cur, quot,
             QuotDigit(cur, b, Min(Base - 1,
                         (Digit(cur, Len(b) + 1) * Base + Digit(cur, Len(b))) \div b[Len(b)])))

NatDivFrom(a, b, i, rem, quot) ==
  IF i = 0 THEN <<quot, rem>>
  ELSE NatDivDigit(a, b, i, Trim(<<a[i]>> \o rem), quot)

\* The division of x by y from the top digit of x down.
NatDivTop(x, y) == NatDivFrom(x, y, Len(x), <<>>, <<>>)

\* <<a \div b, r>> for b # 0, with r = <<>> exactly when b divides a:
\* both are scaled to bring the top digit of b to 2^14 or more.
NatDivExact(a, b) ==
  NatDivTop(NatShl(a, 15 - BitLength(b[Len(b)])), NatShl(b, 15 - BitLength(b[Len(b)])))

(* ------------------------------------------------------------------ *)
(* JavaScript numbers                                                    *)
(* ------------------------------------------------------------------ *)

\* A number is an IEEE 754 binary64 value sign * mant * 2^exp with mant an
\* odd natural number of at most 53 binary digits, so that every value
\* has one representation; 0 is FZero.  Not a Number, the infinities,
\* the sign of zero and the limits of the exponent are left out: the
\* service divides by 1 - deadzone only, and compares zeros with <, >=
\* and !==, which do not tell -0 from 0.
FZero == [sign |-> 1, mant |-> <<>>, exp |-> 0]

\* sign * n * 2^e for n # 0 with tz binary 0 digits at its low end.
OddPart(sign, n, e, tz) == [sign |-> sign, mant |-> NatShr(n, tz), exp |-> e + tz]

\* sign * n * 2^e for n of at most 53 binary digits.
Canon(sign, n, e) ==
  IF n = <<>> THEN FZero ELSE OddPart(sign, n, e, NatTrailingZeros(n))

\* n without its extra > 0 lowest binary digits, one added when the
\* digits dropped are more than a half, or a half and the digit kept
\* above them is 1.
RoundedShift(n, extra, sticky) ==
  NatAdd(NatShr(n, extra),
         IF /\ NatBit(n, extra - 1) = 1
            /\ (sticky \/ NatLowNonzero(n, extra - 1) \/ NatBit(n, extra) = 1)
         THEN <<1>> ELSE <<>>)

\* RoundNearestEven for n with 53 + extra binary digits.
RoundBits(sign, n, e, sticky, extra) ==
  Canon(sign, IF extra <= 0 THEN n ELSE RoundedShift(n, extra, sticky), e + Max(0, extra))

\* The number nearest to sign * (n + f) * 2^e, a tie going to the even
\* mantissa, where 0 <= f < 1 and sticky tells whether f > 0; n has at
\* least 55 binary digits when sticky.
RoundNearestEven(sign, n, e, sticky) == RoundBits(sign, n, e, sticky, NatBits(n) - 53)

\* The number of an integer.
FInt(n) == Canon(IF n < 0 THEN -1 ELSE 1, NatOf(Abs(n)), 0)

\* -a
FNeg(a) == IF a.mant = <<>> THEN a ELSE [a EXCEPT !.sign = -@]

\* Math.abs(a)
FAbs(a) == [a EXCEPT !.sign = 1]

\* -1, 0 or 1 as |a| < |b|, |a| = |b| or |a| > |b|.
FCmpAbs(a, b) ==
  LET ta == NatBits(a.mant) + a.exp
      tb == NatBits(b.mant) + b.exp
      e == Min(a.exp, b.exp)
  IN IF a.mant = <<>> THEN (IF b.mant = <<>> THEN 0 ELSE -1)
     ELSE IF b.mant = <<>> THEN 1
     ELSE IF ta < tb THEN -1
     ELSE IF ta > tb THEN 1
     ELSE NatCmp(NatShl(a.mant, a.exp - e), NatShl(b.mant, b.exp - e))

FCmp(a, b) ==
  IF a.sign # b.sign THEN a.sign
  ELSE a.sign * FCmpAbs(a, b)

\* a < b, a >= b
FLt(a, b) == FCmp(a, b) < 0
FGe(a, b) == FCmp(a, b) >= 0

\* Math.max(a, b), Math.min(a, b)
FMax(a, b) == IF FGe(a, b) THEN a ELSE b
FMin(a, b) == IF FLt(b, a) THEN b ELSE a

\* (sa * x + sb * y) * 2^e, rounded.
AddMants(sa, x, sb, y, e) ==
  RoundNearestEven(IF sa = sb \/ NatCmp(x, y) >= 0 THEN sa ELSE sb,
                   IF sa = sb THEN NatAdd(x, y)
                   ELSE IF NatCmp(x, y) >= 0 THEN NatSub(x, y) ELSE NatSub(y, x),
                   e, FALSE)

\* a + b
FAdd(a, b) ==
  IF a.mant = <<>> THEN b
  ELSE IF b.mant = <<>> THEN a
  ELSE AddMants(a.sign, NatShl(a.mant, a.exp - Min(a.exp, b.exp)),
                b.sign, NatShl(b.mant, b.exp - Min(a.exp, b.exp)), Min(a.exp, b.exp))

\* a - b
FSub(a, b) == FAdd(a, FNeg(b))

\* a * b; a product with a power of 2 is exact.
FMul(a, b) ==
  IF a.mant = <<>> \/ b.mant = <<>> THEN FZero
  ELSE IF a.mant = <<1>> THEN [b EXCEPT !.sign = @ * a.sign, !.exp = @ + a.exp]
  ELSE IF b.mant = <<1>> THEN [a EXCEPT !.sign = @ * b.sign, !.exp = @ + b.exp]
  ELSE RoundNearestEven(a.sign * b.sign, NatMul(a.mant, b.mant), a.exp + b.exp, FALSE)

\* The number of a quotient and remainder qr of mantissas, on 2^e.
RoundQuot(sign, qr, e) == RoundNearestEven(sign, Trim(qr[1]), e, qr[2] # <<>>)

\* a / b with the mantissa of a taken k binary digits further.
DivShifted(a, b, k) ==
  RoundQuot(a.sign * b.sign, NatDivExact(NatShl(a.mant, k), b.mant), a.exp - b.exp - k)

\* a / b for b # 0: the quotient of the mantissas is taken to 55 binary
\* digits or more, and what is left of the division is the sticky digit;
\* a quotient by a power of 2, or of equal mantissas, is exact.
FDiv(a, b) ==
  IF a.mant = <<>> THEN FZero
  ELSE IF b.mant = <<1>>
  THEN [a EXCEPT !.sign = @ * b.sign, !.exp = @ - b.exp]
  ELSE IF a.mant = b.mant
  THEN [sign |-> a.sign * b.sign, mant |-> <<1>>, exp |-> a.exp - b.exp]
  ELSE DivShifted(a, b, Max(0, 55 + NatBits(b.mant) - NatBits(a.mant)))

\* The number a literal n/d denotes for integers n and d # 0 whose
\* quotient has a finite decimal expansion of at most 15 digits (0.1 is
\* FRatio(1, 10)), and the result of n / d on the integers n and d.
FRatio(n, d) == FDiv(FInt(n), FInt(d))

\* Math.round(a): the integer floor(a + 1/2) of the exact value, a tie
\* going towards +Infinity.
MathRound(a) ==
  IF a.exp >= 0 THEN a.sign * IntOf(NatShl(a.mant, a.exp))
  ELSE LET k == -a.exp
           whole == IntOf(NatShr(a.mant, k))
           half == NatBit(a.mant, k - 1) = 1
           below == NatLowNonzero(a.mant, k - 1)
       IN IF a.sign = 1
          THEN whole + (IF half THEN 1 ELSE 0)
          ELSE -(whole + (IF half /\ below THEN 1 ELSE 0))

\* a | b on non-negative integers.
RECURSIVE BitOr(_, _)
BitOr(a, b) ==
  IF a = 0 THEN b
  ELSE IF b = 0 THEN a
  ELSE (IF (a % 2 = 1) \/ (b % 2 = 1) THEN 1 ELSE 0) + 2 * BitOr(a \div 2, b \div 2)

(* ------------------------------------------------------------------ *)
(* parseReport: raw buffer and layout to axes, buttons and hat           *)
(* ------------------------------------------------------------------ *)

\* Buffer.readUInt8(i), i counted from 0.
readUInt8(bytes, i) == bytes[i + 1]
readUInt16LE(bytes, i) == bytes[i + 1] + 256 * bytes[i + 2]
readUInt16BE(bytes, i) == 256 * bytes[i + 1] + bytes[i + 2]

\* Mutant: the value is never reinterpreted as signed.
axisRawValue_alwaysUnsigned(bytes, byteIdx, axisDef) ==
  IF axisDef.byteCount = 2
  THEN IF axisDef.littleEndian
       THEN readUInt16LE(bytes, byteIdx)
       ELSE readUInt16BE(bytes, byteIdx)
  ELSE readUInt8(bytes, byteIdx)

\* The raw value of an axis field that fits in the buffer.
axisRawValue(bytes, byteIdx, axisDef) ==
  IF axisDef.byteCount = 2
  THEN LET u == IF axisDef.littleEndian
                THEN readUInt16LE(bytes, byteIdx)
                ELSE readUInt16BE(bytes, byteIdx)
       IN IF ~axisDef.unsigned /\ u > 32767 THEN u - 65536 ELSE u
  ELSE LET u == readUInt8(bytes, byteIdx)
       IN IF ~axisDef.unsigned /\ u > 127 THEN u - 256 ELSE u

\* Mutant: the report-id byte is not skipped.
parseAxis_ignoresReportId(bytes, offset, axisDef) ==
  LET byteIdx == axisDef.byteOffset IN
  IF byteIdx + axisDef.byteCount > Len(bytes) THEN FInt(0)
  ELSE LET rawValue == axisRawValue(bytes, byteIdx, axisDef)
           range == axisDef.rangeMax - axisDef.rangeMin
           normalized == IF range > 0
                         THEN FDiv(FInt(rawValue - axisDef.rangeMin), FInt(range))
                         ELSE FInt(0)
       IN FMax(FInt(0), FMin(FInt(1), normalized))

\* One iteration of the loop over layout.axes: the value pushed.
parseAxis(bytes, offset, axisDef) ==
  LET byteIdx == offset + axisDef.byteOffset IN
  IF byteIdx + axisDef.byteCount > Len(bytes) THEN FInt(0)
  ELSE LET rawValue == axisRawValue(bytes, byteIdx, axisDef)
           range == axisDef.rangeMax - axisDef.rangeMin
           normalized == IF range > 0
                         THEN FDiv(FInt(rawValue - axisDef.rangeMin), FInt(range))
                         ELSE FInt(0)
       IN FMax(FInt(0), FMin(FInt(1), normalized))

\* One iteration of the loop over layout.buttons: the value pushed.
parseButton(bytes, offset, btnDef) ==
  LET byteIdx == offset + btnDef.byteOffset IN
  IF byteIdx >= Len(bytes) THEN FALSE
  ELSE (readUInt8(bytes, byteIdx) \div Pow2(btnDef.bitIndex)) % 2 = 1

\* Mutant: the hat bits are taken from bit 0 of the byte.
parseHat_ignoresBitOffset(bytes, offset, hat) ==
  IF IsNull(hat) THEN -1
  ELSE LET h == Get(hat)
           byteIdx == offset + h.byteOffset
       IN IF byteIdx < Len(bytes)
          THEN LET hatValue == readUInt8(bytes, byteIdx) % Pow2(h.bitCount)
               IN IF hatValue = h.centerValue THEN -1 ELSE hatValue
          ELSE -1

parseHat(bytes, offset, hat) ==
  IF IsNull(hat) THEN -1
  ELSE LET h == Get(hat)
           byteIdx == offset + h.byteOffset
       IN IF byteIdx < Len(bytes)
          THEN LET hatValue == (readUInt8(bytes, byteIdx) \div Pow2(h.bitOffset))
                                 % Pow2(h.bitCount)
               IN IF hatValue = h.centerValue THEN -1 ELSE hatValue
          ELSE -1

parseReport(data, layout) ==
  LET offset == IF layout.skipReportId THEN 1 ELSE 0 IN
  [axes |-> [i \in 1..Len(layout.axes) |-> parseAxis(data, offset, layout.axes[i])],
   buttons |-> [i \in 1..Len(layout.buttons) |-> parseButton(data, offset, layout.buttons[i])],
   hatSwitch |-> parseHat(data, offset, layout.hat)]

(* ------------------------------------------------------------------ *)
(* mapToGamepad: parsed report and profile to gamepad state              *)
(* ------------------------------------------------------------------ *)

applyDeadzone(value, deadzone) ==
  IF FLt(value, deadzone) THEN FInt(0)
  ELSE FDiv(FSub(value, deadzone), FSub(FInt(1), deadzone))

\* Mutant: a value at or beyond the deadzone passes unscaled.
applyStickDeadzone_noRescale(value, deadzone) ==
  IF FLt(FAbs(value), deadzone) THEN FInt(0) ELSE value

applyStickDeadzone(value, deadzone) ==
  LET abs == FAbs(value) IN
  IF FLt(abs, deadzone) THEN FInt(0)
  ELSE LET sign == IF FGe(value, FInt(0)) THEN FInt(1) ELSE FInt(-1)
       IN FMul(sign, FDiv(FSub(abs, deadzone), FSub(FInt(1), deadzone)))

\* Math.pow(value, 2): the square, rounded once.
MathPow2(value) == FMul(value, value)

\* Mutant: the expo curve is not applied.
applyCurve_alwaysLinear(value, sensitivity, curve) == FMul(value, sensitivity)

applyCurve(value, sensitivity, curve) ==
  IF curve = "expo" THEN FMul(MathPow2(value), sensitivity)
  ELSE FMul(value, sensitivity)

applyStickCurve(value, sensitivity, curve) ==
  LET sign == IF FGe(value, FInt(0)) THEN FInt(1) ELSE FInt(-1)
      abs == FAbs(value)
  IN IF curve = "expo" THEN FMul(FMul(sign, MathPow2(abs)), sensitivity)
     ELSE FMul(value, sensitivity)

IsTrigger(target) == target \in {"leftTrigger", "rightTrigger"}

\* The value written for a trigger target (lines 332-335).
triggerValue(rawNormalized, mapping) ==
  LET v0 == IF mapping.inverted THEN FSub(FInt(1), rawNormalized) ELSE rawNormalized
      v1 == applyDeadzone(v0, mapping.deadzone)
      v2 == applyCurve(v1, mapping.sensitivity, mapping.curve)
  IN Max(0, Min(255, MathRound(FMul(v2, FInt(255)))))

\* Mutant: the bipolar value is not negated for an inverted mapping.
stickValue_ignoresInverted(rawNormalized, mapping) ==
  LET v0 == FSub(FMul(rawNormalized, FInt(2)), FInt(1))
      v2 == applyStickDeadzone(v0, mapping.deadzone)
      v3 == applyStickCurve(v2, mapping.sensitivity, mapping.curve)
  IN Max(-32768, Min(32767, MathRound(FMul(v3, FInt(32767)))))

\* The value written for a stick target (lines 339-343).
stickValue(rawNormalized, mapping) ==
  LET v0 == FSub(FMul(rawNormalized, FInt(2)), FInt(1))
      v1 == IF mapping.inverted THEN FNeg(v0) ELSE v0
      v2 == applyStickDeadzone(v1, mapping.deadzone)
      v3 == applyStickCurve(v2, mapping.sensitivity, mapping.curve)
  IN Max(-32768, Min(32767, MathRound(FMul(v3, FInt(32767)))))

\* Mutant: a source index beyond the sample wraps around.
applyAxisMapping_wrapsIndex(state, parsed, mapping) ==
  IF Len(parsed.axes) = 0 THEN state
  ELSE LET rawNormalized == parsed.axes[(mapping.sourceIndex % Len(parsed.axes)) + 1] IN
       IF IsTrigger(mapping.target)
       THEN [state EXCEPT ![mapping.target] = triggerValue(rawNormalized, mapping)]
       ELSE IF mapping.target \in {"leftStickX", "leftStickY", "rightStickX", "rightStickY"}
            THEN [state EXCEPT ![mapping.target] = stickValue(rawNormalized, mapping)]
            ELSE state

\* The body of the loop over profile.axisMappings for one mapping.
applyAxisMapping(state, parsed, mapping) ==
  IF mapping.sourceIndex >= Len(parsed.axes) THEN state
  ELSE LET rawNormalized == parsed.axes[mapping.sourceIndex + 1] IN
       IF IsTrigger(mapping.target)
       THEN [state EXCEPT ![mapping.target] = triggerValue(rawNormalized, mapping)]
       ELSE IF mapping.target \in {"leftStickX", "leftStickY", "rightStickX", "rightStickY"}
            THEN [state EXCEPT ![mapping.target] = stickValue(rawNormalized, mapping)]
            ELSE state

\* Mutant: a pressed button replaces the bits set so far.
applyButtonMapping_overwrites(state, parsed, mapping) ==
  IF mapping.sourceIndex >= Len(parsed.buttons) THEN state
  ELSE IF parsed.buttons[mapping.sourceIndex + 1]
       THEN [state EXCEPT !.buttons = mapping.targetButton]
       ELSE state

\* The body of the loop over profile.buttonMappings for one mapping.
applyButtonMapping(state, parsed, mapping) ==
  IF mapping.sourceIndex >= Len(parsed.buttons) THEN state
  ELSE IF parsed.buttons[mapping.sourceIndex + 1]
       THEN [state EXCEPT !.buttons = BitOr(@, mapping.targetButton)]
       ELSE state

RECURSIVE foldAxisMappings(_, _, _, _)
foldAxisMappings(state, parsed, mappings, i) ==
  IF i > Len(mappings) THEN state
  ELSE foldAxisMappings(applyAxisMapping(state, parsed, mappings[i]), parsed, mappings, i + 1)

RECURSIVE foldButtonMappings(_, _, _, _)
foldButtonMappings(state, parsed, mappings, i) ==
  IF i > Len(mappings) THEN state
  ELSE foldButtonMappings(applyButtonMapping(state, parsed, mappings[i]), parsed, mappings, i + 1)

\* Mutant: a diagonal position asserts nothing.
hatButtons_cardinalOnly(hat) ==
  IF hat = 0 THEN GAMEPAD_DPAD_UP
  ELSE IF hat = 2 THEN GAMEPAD_DPAD_RIGHT
  ELSE IF hat = 4 THEN GAMEPAD_DPAD_DOWN
  ELSE IF hat = 6 THEN GAMEPAD_DPAD_LEFT
  ELSE 0

\* The D-pad bits of a hat position (lines 360-366).
hatButtons(hat) ==
  IF hat >= 0
  THEN BitOr(BitOr(IF hat \in {0, 1, 7} THEN GAMEPAD_DPAD_UP ELSE 0,
                   IF hat \in {1, 2, 3} THEN GAMEPAD_DPAD_RIGHT ELSE 0),
             BitOr(IF hat \in {3, 4, 5} THEN GAMEPAD_DPAD_DOWN ELSE 0,
                   IF hat \in {5, 6, 7} THEN GAMEPAD_DPAD_LEFT ELSE 0))
  ELSE 0

\* A gamepad state with every input at rest.
neutralGamepad(controllerSlot, connected) ==
  [controllerId |-> controllerSlot, buttons |-> 0,
   leftTrigger |-> 0, rightTrigger |-> 0,
   leftStickX |-> 0, leftStickY |-> 0, rightStickX |-> 0, rightStickY |-> 0,
   connected |-> connected]

mapToGamepad(parsed, profile, controllerSlot) ==
  LET s0 == neutralGamepad(controllerSlot, TRUE)
      s1 == foldAxisMappings(s0, parsed, profile.axisMappings, 1)
      s2 == foldButtonMappings(s1, parsed, profile.buttonMappings, 1)
  IN [s2 EXCEPT !.buttons = BitOr(@, hatButtons(parsed.hatSwitch))]

\* hasGamepadStateChanged, with this.lastGamepadState passed as prev.
hasGamepadStateChanged(prev, newState) ==
  IF IsNull(prev) THEN TRUE
  ELSE \/ Get(prev).buttons # newState.buttons
       \/ Get(prev).leftTrigger # newState.leftTrigger
       \/ Get(prev).rightTrigger # newState.rightTrigger
       \/ Get(prev).leftStickX # newState.leftStickX
       \/ Get(prev).leftStickY # newState.leftStickY
       \/ Get(prev).rightStickX # newState.rightStickX
       \/ Get(prev).rightStickY # newState.rightStickY

(* ------------------------------------------------------------------ *)
(* The environment: devices, the profile store, the device defaults      *)
(* ------------------------------------------------------------------ *)

\* Byte values of the raw reports of the lifecycle model.
Bytes == {0, 255}

RECURSIVE SeqsUpTo(_, _)
SeqsUpTo(S, n) ==
  IF n = 0 THEN {<<>>}
  ELSE LET shorter == SeqsUpTo(S, n - 1)
       IN shorter \cup {Append(q, x) : q \in {r \in shorter : Len(r) = n - 1}, x \in S}

Buffers == SeqsUpTo(Bytes, MaxBufLen)

\* slot arguments of the constructor and of updateConfig
SlotInputs == {-1, 7}

Paths == {"hid0", "hid1", "hid2"}

\* What HID.devices() may answer: it throws (None), or lists a set of paths.
Enumerations == {None, Some({}), Some({"hid1"}), Some(Paths)}

\* What HID.devices() reports for a path (vendorId, productId, product).
DeviceTable ==
  [p \in Paths |->
     CASE p = "hid0" -> [vendorId |-> 1, productId |-> 1, product |-> "Stick"]
       [] p = "hid1" -> [vendorId |-> 2, productId |-> 2, product |-> "Throttle"]
       [] OTHER      -> [vendorId |-> 3, productId |-> 3, product |-> "Unknown Device"]]

StickLayout ==
  [skipReportId |-> FALSE,
   axes |-> << [byteOffset |-> 0, byteCount |-> 1, littleEndian |-> TRUE,
                unsigned |-> TRUE, rangeMin |-> 0, rangeMax |-> 255] >>,
   buttons |-> << [byteOffset |-> 1, bitIndex |-> 0] >>,
   hat |-> Some([byteOffset |-> 1, bitOffset |-> 4, bitCount |-> 4, centerValue |-> 15])]

ThrottleLayout ==
  [skipReportId |-> TRUE,
   axes |-> << [byteOffset |-> 0, byteCount |-> 1, littleEndian |-> TRUE,
                unsigned |-> TRUE, rangeMin |-> 0, rangeMax |-> 255] >>,
   buttons |-> << >>,
   hat |-> None]

\* The deadzone of a generated profile: the number 0.1.
DefaultDeadzone == FRatio(1, 10)

\* profileManager.getOrCreateProfile(vendorId, productId, name): the stick's
\* profile carries its own layout, the other profiles carry none.
getOrCreateProfile(vendorId, productId, name) ==
  CASE vendorId = 1 ->
         [name |-> name, reportLayout |-> Some(StickLayout),
          axisMappings |-> << [sourceIndex |-> 0, target |-> "leftStickX", inverted |-> FALSE,
                               deadzone |-> DefaultDeadzone, sensitivity |-> FInt(1),
                               curve |-> "linear"],
                              [sourceIndex |-> 3, target |-> "rightStickY", inverted |-> FALSE,
                               deadzone |-> DefaultDeadzone, sensitivity |-> FInt(1),
                               curve |-> "linear"] >>,
          buttonMappings |-> << [sourceIndex |-> 0, targetButton |-> 4096] >>]
    [] vendorId = 2 ->
         [name |-> name, reportLayout |-> None,
          axisMappings |-> << [sourceIndex |-> 0, target |-> "rightTrigger", inverted |-> FALSE,
                               deadzone |-> FInt(0), sensitivity |-> FInt(1),
                               curve |-> "expo"] >>,
          buttonMappings |-> << >>]
    [] OTHER ->
         [name |-> name, reportLayout |-> None,
          axisMappings |-> << [sourceIndex |-> 0, target |-> "leftStickX", inverted |-> FALSE,
                               deadzone |-> DefaultDeadzone, sensitivity |-> FInt(1),
                               curve |-> "linear"] >>,
          buttonMappings |-> << [sourceIndex |-> 0, targetButton |-> 4096] >>]

\* getDeviceConfig(vendorId, productId)?.layout: only the throttle is a known device.
knownConfigLayout(vendorId, productId) ==
  IF vendorId = 2 THEN Some(ThrottleLayout) ELSE None

(* ------------------------------------------------------------------ *)
(* The service                                                           *)
(* ------------------------------------------------------------------ *)

VARIABLES
  device,            \* this.device: the open handle, NoDevice for null
  devicePath,        \* this.devicePath, NoPath for null
  deviceVendorId,
  deviceProductId,
  deviceName,
  enabled,
  controllerSlot,
  mainWindow,        \* "null", "live" or "destroyed" (isDestroyed())
  hotplugTimer,      \* TRUE when this.hotplugTimer holds an interval
  disposed,
  lastRawBytes,
  reportLayout,      \* nullable
  profile,           \* nullable
  lastGamepadState,  \* nullable
  openHandles,       \* device layer: the handles opened and not closed
  nextHandle,        \* device layer: the number of handles opened so far
  activeTimers,      \* timer layer: intervals set and not cleared
  log,               \* what the last operation did, in order: device-layer
                     \* calls and the messages sent to the window
  op,                \* the last operation, its inputs and its result
  args,              \* the arguments of a direct call of parseReport or
                     \* mapToGamepad, None when the service is driven whole
  result,            \* what that call returned, None before it returns
  session            \* what the window has been sent in the current capture
                     \* session, None where no claim reads it

vars == <<device, devicePath, deviceVendorId, deviceProductId, deviceName, enabled,
          controllerSlot, mainWindow, hotplugTimer, disposed, lastRawBytes,
          reportLayout, profile, lastGamepadState, openHandles, nextHandle,
          activeTimers, log, op, args, result, session>>

\* The state an operation starts from, with an empty log.
This ==
  [device |-> device, devicePath |-> devicePath, deviceVendorId |-> deviceVendorId,
   deviceProductId |-> deviceProductId, deviceName |-> deviceName, enabled |-> enabled,
   controllerSlot |-> controllerSlot, mainWindow |-> mainWindow,
   hotplugTimer |-> hotplugTimer, disposed |-> disposed, lastRawBytes |-> lastRawBytes,
   reportLayout |-> reportLayout, profile |-> profile,
   lastGamepadState |-> lastGamepadState, openHandles |-> openHandles,
   nextHandle |-> nextHandle, activeTimers |-> activeTimers, log |-> <<>>]

\* The seven fields of a retained state that hasGamepadStateChanged reads.
comparedFields(prev) ==
  IF IsNull(prev) THEN None
  ELSE Some([buttons |-> Get(prev).buttons,
             leftTrigger |-> Get(prev).leftTrigger,
             rightTrigger |-> Get(prev).rightTrigger,
             leftStickX |-> Get(prev).leftStickX,
             leftStickY |-> Get(prev).leftStickY,
             rightStickX |-> Get(prev).rightStickX,
             rightStickY |-> Get(prev).rightStickY])

\* A capture session in which nothing has been processed or sent. keep names
\* the fields that are recorded: delivered is the last gamepad-update with
\* connected = true sent to the window in the session, fed the controllerIds
\* of all of them, buffers the number of buffers processed (1 for one or
\* more), previous the compared fields of the state retained when the session
\* before ended, held until the first buffer is processed, repeats whether
\* the last call processed the first buffer of the session and left that
\* same state retained.
NoSession(keep) ==
  [keep |-> keep, delivered |-> None, fed |-> {}, buffers |-> 0, previous |-> None,
   repeats |-> FALSE]

\* The session record after an operation that leaves state c: a change of
\* this.device ends or starts a session, a data callback adds to it.
sessionAfter(s, c, o) ==
  IF c.device # device
  THEN [NoSession(s.keep) EXCEPT
          !.previous = IF "previous" \notin s.keep THEN None
                       ELSE IF device # NoDevice THEN comparedFields(lastGamepadState)
                       ELSE s.previous]
  ELSE IF o.name = "data"
       THEN LET sent == {i \in 1..Len(c.log) :
                           c.log[i].ch = "gamepad-update" /\ c.log[i].state.connected}
                last == CHOOSE i \in sent : \A j \in sent : j <= i
            IN [s EXCEPT
                  !.buffers = IF "buffers" \in s.keep THEN 1 ELSE @,
                  !.previous = None,
                  !.repeats = IF s.buffers = 0
                              THEN /\ ~IsNull(s.previous)
                                   /\ ~IsNull(c.lastGamepadState)
                                   /\ ~hasGamepadStateChanged(s.previous,
                                                              Get(c.lastGamepadState))
                              ELSE FALSE,
                  !.delivered = IF "delivered" \in s.keep /\ sent # {}
                                THEN Some(c.log[last].state) ELSE @,
                  !.fed = IF "fed" \in s.keep
                          THEN @ \cup {c.log[i].state.controllerId : i \in sent}
                          ELSE @]
       ELSE [s EXCEPT !.repeats = FALSE]

\* The state an operation leaves, and the record of the operation.
Commit(c, o) ==
  /\ device' = c.device
  /\ devicePath' = c.devicePath
  /\ deviceVendorId' = c.deviceVendorId
  /\ deviceProductId' = c.deviceProductId
  /\ deviceName' = c.deviceName
  /\ enabled' = c.enabled
  /\ controllerSlot' = c.controllerSlot
  /\ mainWindow' = c.mainWindow
  /\ hotplugTimer' = c.hotplugTimer
  /\ disposed' = c.disposed
  /\ lastRawBytes' = c.lastRawBytes
  /\ reportLayout' = c.reportLayout
  /\ profile' = c.profile
  /\ lastGamepadState' = c.lastGamepadState
  /\ openHandles' = c.openHandles
  /\ nextHandle' = c.nextHandle
  /\ activeTimers' = c.activeTimers
  /\ log' = c.log
  /\ op' = o
  /\ session' = IF IsNull(session) THEN None ELSE Some(sessionAfter(Get(session), c, o))
  /\ UNCHANGED <<args, result>>

Op(name, ret) ==
  [name |-> name, ret |-> ret, path |-> NoPath, found |-> FALSE, openOk |-> FALSE,
   data |-> <<>>]

\* Entries of the log.
HidEnumerate == [ch |-> "HID.devices"]
HidOpen(h, path) == [ch |-> "HID.open", handle |-> h, path |-> path]
HidClose(h) == [ch |-> "HID.close", handle |-> h]
StateUpdate(state) == [ch |-> "state-update", state |-> state]
GamepadUpdate(state) == [ch |-> "gamepad-update", state |-> state]

Emit(c, entry) == [c EXCEPT !.log = Append(@, entry)]

\* !this.mainWindow || this.mainWindow.isDestroyed()
noWindow(c) == c.mainWindow # "live"

\* Mutant: the slot is clamped from below only.
clampSlot_noUpperBound(slot) == Max(MinSlot, slot)

clampSlot(slot) == Max(MinSlot, Min(MaxSlot, slot))

\* Mutant: the neutral gamepad state of a disconnect is never sent.
sendConnectedState_noNeutral(c, connected) ==
  IF noWindow(c) THEN c
  ELSE Emit(c, StateUpdate([connected |-> connected, deviceName |-> c.deviceName,
                            axes |-> <<>>, buttons |-> <<>>, hatSwitch |-> -1,
                            rawBytes |-> <<>>]))

sendConnectedState(c, connected) ==
  IF noWindow(c) THEN c
  ELSE LET state == [connected |-> connected, deviceName |-> c.deviceName,
                     axes |-> <<>>, buttons |-> <<>>, hatSwitch |-> -1,
                     rawBytes |-> <<>>]
           c1 == Emit(c, StateUpdate(state))
       IN IF ~connected
          THEN Emit(c1, GamepadUpdate(neutralGamepad(c.controllerSlot, FALSE)))
          ELSE c1

sendRawState(c, data) ==
  IF noWindow(c) THEN c
  ELSE Emit(c, StateUpdate([connected |-> TRUE, deviceName |-> c.deviceName,
                            axes |-> <<>>, buttons |-> <<>>, hatSwitch |-> -1,
                            rawBytes |-> data]))

\* Mutant: the forwarded sample loses its raw bytes.
emitStateUpdate_dropsRawBytes(c, state) ==
  IF noWindow(c) THEN c ELSE Emit(c, StateUpdate([state EXCEPT !.rawBytes = <<>>]))

emitStateUpdate(c, state) ==
  IF noWindow(c) THEN c ELSE Emit(c, StateUpdate(state))

emitGamepadState(c, state) ==
  IF noWindow(c) THEN c ELSE Emit(c, GamepadUpdate(state))

\* Mutant: the handle is dropped without being closed.
stopCapture_leaksHandle(c) ==
  LET c1 == [c EXCEPT !.device = NoDevice]
  IN IF c1.devicePath # NoPath
     THEN [sendConnectedState(c1, FALSE) EXCEPT
             !.devicePath = NoPath, !.lastGamepadState = None, !.lastRawBytes = <<>>]
     ELSE c1

\* Mutant: the path of the ended session is kept.
stopCapture_keepsPath(c) ==
  LET c1 == IF c.device # NoDevice
            THEN [Emit(c, HidClose(c.device)) EXCEPT
                    !.openHandles = @ \ {c.device}, !.device = NoDevice]
            ELSE c
  IN IF c1.devicePath # NoPath
     THEN [sendConnectedState(c1, FALSE) EXCEPT
             !.lastGamepadState = None, !.lastRawBytes = <<>>]
     ELSE c1

\* Mutant: the retained gamepad state survives the end of the session.
stopCapture_keepsRetained(c) ==
  LET c1 == IF c.device # NoDevice
            THEN [Emit(c, HidClose(c.device)) EXCEPT
                    !.openHandles = @ \ {c.device}, !.device = NoDevice]
            ELSE c
  IN IF c1.devicePath # NoPath
     THEN [sendConnectedState(c1, FALSE) EXCEPT
             !.devicePath = NoPath, !.lastRawBytes = <<>>]
     ELSE c1

\* device.close() closes the handle whether or not it throws; the catch swallows.
stopCapture(c) ==
  LET c1 == IF c.device # NoDevice
            THEN [Emit(c, HidClose(c.device)) EXCEPT
                    !.openHandles = @ \ {c.device}, !.device = NoDevice]
            ELSE c
  IN IF c1.devicePath # NoPath
     THEN [sendConnectedState(c1, FALSE) EXCEPT
             !.devicePath = NoPath, !.lastGamepadState = None, !.lastRawBytes = <<>>]
     ELSE c1

isCapturing(c) == c.device # NoDevice

stopHotplugScan(c) ==
  IF c.hotplugTimer
  THEN [c EXCEPT !.activeTimers = @ - 1, !.hotplugTimer = FALSE]
  ELSE c

startHotplugScan(c) ==
  [stopHotplugScan(c) EXCEPT !.activeTimers = @ + 1, !.hotplugTimer = TRUE]

\* Mutant: disabling stops the hotplug scan but not the capture.
updateConfig_keepsCapture(c, newEnabled, slot) ==
  LET wasEnabled == c.enabled
      c1 == [c EXCEPT !.enabled = newEnabled, !.controllerSlot = clampSlot(slot)]
      c2 == IF ~newEnabled /\ wasEnabled THEN stopHotplugScan(c1) ELSE c1
  IN IF newEnabled /\ ~wasEnabled THEN startHotplugScan(c2) ELSE c2

updateConfig(c, newEnabled, slot) ==
  LET wasEnabled == c.enabled
      c1 == [c EXCEPT !.enabled = newEnabled, !.controllerSlot = clampSlot(slot)]
      c2 == IF ~newEnabled /\ wasEnabled THEN stopHotplugScan(stopCapture(c1)) ELSE c1
  IN IF newEnabled /\ ~wasEnabled THEN startHotplugScan(c2) ELSE c2

initialize(c) == IF c.enabled THEN startHotplugScan(c) ELSE c

dispose(c) == stopHotplugScan(stopCapture([c EXCEPT !.disposed = TRUE]))

\* Mutant: the tick does not look at this.device.
hotplugTick_ignoresDevice(c, devs) ==
  IF c.disposed \/ ~c.enabled THEN c ELSE Emit(c, HidEnumerate)

\* The interval callback of startHotplugScan; devs is what HID.devices() returns
\* (None when it throws, which getDevices turns into an empty list).
hotplugTick(c, devs) ==
  IF c.disposed \/ ~c.enabled THEN c
  ELSE IF c.device # NoDevice THEN c
  ELSE Emit(c, HidEnumerate)

\* Mutant: with neither source a layout, the layout of the last capture stays.
resolveLayout_keepsStale(c, prof, known) ==
  IF ~IsNull(prof.reportLayout) THEN prof.reportLayout
  ELSE IF ~IsNull(known) THEN known
  ELSE c.reportLayout

\* this.profile.reportLayout ?? knownConfig?.layout ?? null
resolveLayout(c, prof, known) ==
  IF ~IsNull(prof.reportLayout) THEN prof.reportLayout ELSE known

\* The try block of startCapture and its catch, with the answers of the device
\* layer: devs is the set of paths HID.devices() lists (None when it throws)
\* and openOk says whether new HID.HID(devicePath) returns a handle.  The
\* result is <<state, returned>>.
tryOpen(c, path, devs, openOk) ==
  LET c1 == Emit(c, HidEnumerate)
      failed == [c1 EXCEPT !.device = NoDevice, !.devicePath = NoPath]
  IN IF IsNull(devs) THEN <<failed, FALSE>>
     ELSE IF path \notin Get(devs) THEN <<c1, FALSE>>
     ELSE IF ~openOk THEN <<failed, FALSE>>
     ELSE
       LET h == c1.nextHandle + 1
           deviceInfo == DeviceTable[path]
           prof == getOrCreateProfile(deviceInfo.vendorId, deviceInfo.productId,
                                      deviceInfo.product)
           known == knownConfigLayout(deviceInfo.vendorId, deviceInfo.productId)
           c2 == [Emit(c1, HidOpen(h, path)) EXCEPT
                    !.nextHandle = h,
                    !.openHandles = @ \cup {h},
                    !.device = h,
                    !.devicePath = path,
                    !.deviceVendorId = deviceInfo.vendorId,
                    !.deviceProductId = deviceInfo.productId,
                    !.deviceName = deviceInfo.product,
                    !.profile = Some(prof),
                    !.reportLayout = resolveLayout(c1, prof, known)]
       IN <<sendConnectedState(c2, TRUE), TRUE>>

\* Mutant: the enabled flag is not looked at.
startCapture_ignoresEnabled(c, path, devs, openOk) ==
  tryOpen(stopCapture(c), path, devs, openOk)

\* startCapture(devicePath); the result is <<state, returned>>.
startCapture(c, path, devs, openOk) ==
  IF ~c.enabled THEN <<c, FALSE>>
  ELSE tryOpen(stopCapture(c), path, devs, openOk)

\* Mutant: the handler forgets the handle and leaves the session as it is.
handleDeviceDisconnect_dropsHandle(c) ==
  [c EXCEPT !.device = NoDevice, !.openHandles = {}]

handleDeviceDisconnect(c) == stopCapture(c)

onHidData(c, data) ==
  IF IsNull(c.reportLayout) \/ IsNull(c.profile)
  THEN sendRawState([c EXCEPT !.lastRawBytes = data], data)
  ELSE
    LET parsed == parseReport(data, Get(c.reportLayout))
        c1 == [c EXCEPT !.lastRawBytes = data]
        rawState == [connected |-> TRUE, deviceName |-> c.deviceName,
                     axes |-> parsed.axes, buttons |-> parsed.buttons,
                     hatSwitch |-> parsed.hatSwitch, rawBytes |-> data]
        c2 == emitStateUpdate(c1, rawState)
        gamepadState == mapToGamepad(parsed, Get(c.profile), c.controllerSlot)
    IN IF hasGamepadStateChanged(c2.lastGamepadState, gamepadState)
       THEN emitGamepadState([c2 EXCEPT !.lastGamepadState = Some(gamepadState)],
                             gamepadState)
       ELSE c2

(* ------------------------------------------------------------------ *)
(* The state machine                                                     *)
(* ------------------------------------------------------------------ *)

\* new FlightControlsService(enabled, slot), with the session record s.
InitWith(s) ==
  /\ device = NoDevice
  /\ devicePath = NoPath
  /\ deviceVendorId = 0
  /\ deviceProductId = 0
  /\ deviceName = ""
  /\ enabled \in BOOLEAN
  /\ controllerSlot \in {clampSlot(slot) : slot \in SlotInputs}
  /\ mainWindow = "null"
  /\ hotplugTimer = FALSE
  /\ disposed = FALSE
  /\ lastRawBytes = <<>>
  /\ reportLayout = None
  /\ profile = None
  /\ lastGamepadState = None
  /\ openHandles = {}
  /\ nextHandle = 0
  /\ activeTimers = 0
  /\ log = <<>>
  /\ op = Op("constructor", "void")
  /\ args = None
  /\ result = None
  /\ session = s

Init == InitWith(None)

SetMainWindow ==
  \E win \in {"null", "live"} :
    Commit([This EXCEPT !.mainWindow = win], Op("setMainWindow", "void"))

\* The window is destroyed by the user; the service keeps its reference.
WindowDestroyed ==
  /\ mainWindow = "live"
  /\ Commit([This EXCEPT !.mainWindow = "destroyed"], Op("windowDestroyed", "void"))

UpdateConfig ==
  \E e \in BOOLEAN, slot \in SlotInputs :
    Commit(updateConfig(This, e, slot), Op("updateConfig", "void"))

Initialize == Commit(initialize(This), Op("initialize", "void"))

StartCapture ==
  \E path \in Paths, devs \in Enumerations, openOk \in BOOLEAN :
    /\ nextHandle < MaxHandles
    /\ LET r == startCapture(This, path, devs, openOk)
       IN Commit(r[1], [Op("startCapture", IF r[2] THEN "true" ELSE "false") EXCEPT
                          !.path = path,
                          !.found = ~IsNull(devs) /\ path \in Get(devs),
                          !.openOk = openOk])

StopCapture == Commit(stopCapture(This), Op("stopCapture", "void"))

Dispose == Commit(dispose(This), Op("dispose", "void"))

\* The interval fires while it has not been cleared.
HotplugTick ==
  /\ activeTimers > 0
  /\ \E devs \in Enumerations :
       Commit(hotplugTick(This, devs), Op("hotplugTick", "void"))

\* The open handle delivers a report to the "data" listener.
HidData ==
  /\ device # NoDevice
  /\ \E data \in Buffers :
       Commit(onHidData(This, data), [Op("data", "void") EXCEPT !.data = data])

\* The open handle reports an error to the "error" listener.
HidError ==
  /\ device # NoDevice
  /\ Commit(handleDeviceDisconnect(This), Op("error", "void"))

Next ==
  \/ SetMainWindow
  \/ WindowDestroyed
  \/ UpdateConfig
  \/ Initialize
  \/ StartCapture
  \/ StopCapture
  \/ Dispose
  \/ HotplugTick
  \/ HidData
  \/ HidError

Spec == Init /\ [][Next]_vars

\* The service with the last delivered state of the session recorded.
InitDelivered == InitWith(Some(NoSession({"delivered"})))

SpecDelivered == InitDelivered /\ [][Next]_vars

\* The service with the controllerIds fed in the session recorded.
InitFed == InitWith(Some(NoSession({"fed"})))

SpecFed == InitFed /\ [][Next]_vars

\* The service with the number of buffers of the session and the state
\* retained at the end of the session before recorded.
InitFirst == InitWith(Some(NoSession({"buffers", "previous"})))

SpecFirst == InitFirst /\ [][Next]_vars

(* ------------------------------------------------------------------ *)
(* A device layer that gives no guarantee on when callbacks stop         *)
(* ------------------------------------------------------------------ *)

\* The handles that were opened and have been closed; their listeners still
\* hold the closures registered by startCapture.
ClosedHandles == (1..nextHandle) \ openHandles

\* stopCapture in which device.close() delivers "error" to the listener
\* before it returns: the listener runs handleDeviceDisconnect while
\* this.device is still set, then the outer call goes on after its close().
stopCaptureErrorInClose(c) ==
  IF c.device # NoDevice
  THEN LET closing == Emit(c, HidClose(c.device))
           handled == handleDeviceDisconnect(closing)
       IN stopCapture([handled EXCEPT !.device = NoDevice])
  ELSE stopCapture(c)

\* A closed handle delivers a report to its "data" listener.
LateHidData ==
  /\ ClosedHandles # {}
  /\ \E data \in Buffers :
       Commit(onHidData(This, data), [Op("lateData", "void") EXCEPT !.data = data])

\* A closed handle reports an error to its "error" listener.
LateHidError ==
  /\ ClosedHandles # {}
  /\ Commit(handleDeviceDisconnect(This), Op("lateError", "void"))

\* stopCapture() whose close() is answered by an error callback.
StopCaptureErrorInClose ==
  /\ device # NoDevice
  /\ Commit(stopCaptureErrorInClose(This), Op("stopCaptureErrorInClose", "void"))

NextLate ==
  \/ Next
  \/ LateHidData
  \/ LateHidError
  \/ StopCaptureErrorInClose

SpecLate == Init /\ [][NextLate]_vars

(* ------------------------------------------------------------------ *)
(* parseReport called on its own                                         *)
(* ------------------------------------------------------------------ *)

MaxParseLen == 2
ParseBytes == {0, 3, 8, 255}
ParseBuffers == SeqsUpTo(ParseBytes, MaxParseLen)

AxisRanges == {<<0, 255>>, <<0, 1023>>, <<-32768, 32767>>, <<5, 5>>}

AxisFields ==
  {[byteOffset |-> o, byteCount |-> n, littleEndian |-> le, unsigned |-> u,
    rangeMin |-> r[1], rangeMax |-> r[2]] :
     o \in {0, 1}, n \in {1, 2}, le \in BOOLEAN, u \in BOOLEAN, r \in AxisRanges}

SecondAxis ==
  [byteOffset |-> 1, byteCount |-> 1, littleEndian |-> TRUE, unsigned |-> TRUE,
   rangeMin |-> 0, rangeMax |-> 255]

AxisLists == {<<>>} \cup {<<a>> : a \in AxisFields} \cup {<<SecondAxis, SecondAxis>>}

ButtonLists ==
  {<<>>,
   <<[byteOffset |-> 0, bitIndex |-> 0], [byteOffset |-> 0, bitIndex |-> 7],
     [byteOffset |-> 1, bitIndex |-> 1], [byteOffset |-> 2, bitIndex |-> 0]>>}

HatFields ==
  {None,
   Some([byteOffset |-> 0, bitOffset |-> 0, bitCount |-> 4, centerValue |-> 8]),
   Some([byteOffset |-> 0, bitOffset |-> 0, bitCount |-> 3, centerValue |-> 0]),
   Some([byteOffset |-> 1, bitOffset |-> 0, bitCount |-> 4, centerValue |-> 8]),
   Some([byteOffset |-> 1, bitOffset |-> 4, bitCount |-> 4, centerValue |-> 15])}

ParseLayouts ==
  {[skipReportId |-> skip, axes |-> axes, buttons |-> buttons, hat |-> hat] :
     skip \in BOOLEAN, axes \in AxisLists, buttons \in ButtonLists, hat \in HatFields}

ParseArgs ==
  {[fn |-> "parseReport", data |-> data, layout |-> layout] :
     data \in ParseBuffers, layout \in ParseLayouts}

\* The service as new FlightControlsService(false, slot) leaves it, about
\* to be handed the arguments a.
Constructed(slot, a) ==
  /\ device = NoDevice
  /\ devicePath = NoPath
  /\ deviceVendorId = 0
  /\ deviceProductId = 0
  /\ deviceName = ""
  /\ enabled = FALSE
  /\ controllerSlot = clampSlot(slot)
  /\ mainWindow = "null"
  /\ hotplugTimer = FALSE
  /\ disposed = FALSE
  /\ lastRawBytes = <<>>
  /\ reportLayout = None
  /\ profile = None
  /\ lastGamepadState = None
  /\ openHandles = {}
  /\ nextHandle = 0
  /\ activeTimers = 0
  /\ log = <<>>
  /\ op = Op("constructor", "void")
  /\ args = Some(a)
  /\ result = None
  /\ session = None

InitParse == \E a \in ParseArgs : Constructed(0, a)

CallParseReport ==
  /\ result = None
  /\ Get(args).fn = "parseReport"
  /\ result' = Some(parseReport(Get(args).data, Get(args).layout))
  /\ UNCHANGED <<device, devicePath, deviceVendorId, deviceProductId, deviceName,
                 enabled, controllerSlot, mainWindow, hotplugTimer, disposed,
                 lastRawBytes, reportLayout, profile, lastGamepadState, openHandles,
                 nextHandle, activeTimers, log, op, args, session>>

NextParse == CallParseReport

SpecParse == InitParse /\ [][NextParse]_vars

(* ------------------------------------------------------------------ *)
(* mapToGamepad called on its own                                        *)
(* ------------------------------------------------------------------ *)

AxisGrid == 20
MaxButtons == 2
MaxHat == 9

RawValues == {FRatio(k, AxisGrid) : k \in 0..AxisGrid}
Deadzones == {FInt(0), FRatio(1, 10), FRatio(1, 2)}
Sensitivities == {FRatio(1, 10), FInt(1), FInt(3)}
Curves == {"linear", "expo"}
StickTargets == {"leftStickX", "leftStickY", "rightStickX", "rightStickY"}
TriggerTargets == {"leftTrigger", "rightTrigger"}
WideSlots == {-1, 2, 7}

AxisMappingInputs ==
  {[sourceIndex |-> i, target |-> t, inverted |-> inv, deadzone |-> d,
    sensitivity |-> sens, curve |-> c] :
     i \in {0, 1}, t \in StickTargets \cup TriggerTargets, inv \in BOOLEAN,
     d \in Deadzones, sens \in Sensitivities, c \in Curves}

FirstMapping ==
  [sourceIndex |-> 0, target |-> "leftStickX", inverted |-> FALSE,
   deadzone |-> FInt(0), sensitivity |-> FInt(1), curve |-> "linear"]

ButtonMappingInputs ==
  {[sourceIndex |-> i, targetButton |-> b] :
     i \in 0..MaxButtons, b \in {GAMEPAD_DPAD_UP, 4096, 4096 + 8192}}

\* One axis and the mappings that read it, or miss it.
AxisMapArgs ==
  {[fn |-> "mapToGamepad",
    parsed |-> [axes |-> <<raw>>, buttons |-> <<>>, hatSwitch |-> -1],
    profile |-> [axisMappings |-> ms, buttonMappings |-> <<>>]] :
     raw \in RawValues,
     ms \in {<<m>> : m \in AxisMappingInputs} \cup {<<FirstMapping, m>> : m \in AxisMappingInputs}}

\* Buttons and a hat, no axis.
ButtonMapArgs ==
  {[fn |-> "mapToGamepad",
    parsed |-> [axes |-> <<>>, buttons |-> bs, hatSwitch |-> h],
    profile |-> [axisMappings |-> ams, buttonMappings |-> bms]] :
     bs \in SeqsUpTo(BOOLEAN, MaxButtons), h \in -1..MaxHat,
     ams \in {<<>>, <<FirstMapping>>},
     bms \in SeqsUpTo(ButtonMappingInputs, 2)}

MapArgs == AxisMapArgs \cup ButtonMapArgs

InitMap == \E slot \in WideSlots, a \in MapArgs : Constructed(slot, a)

CallMapToGamepad ==
  /\ result = None
  /\ Get(args).fn = "mapToGamepad"
  /\ result' = Some(mapToGamepad(Get(args).parsed, Get(args).profile, controllerSlot))
  /\ UNCHANGED <<device, devicePath, deviceVendorId, deviceProductId, deviceName,
                 enabled, controllerSlot, mainWindow, hotplugTimer, disposed,
                 lastRawBytes, reportLayout, profile, lastGamepadState, openHandles,
                 nextHandle, activeTimers, log, op, args, session>>

NextMap == CallMapToGamepad

SpecMap == InitMap /\ [][NextMap]_vars

(* ------------------------------------------------------------------ *)
(* Reading the log                                                       *)
(* ------------------------------------------------------------------ *)

IsStateUpdate(e) == e.ch = "state-update"
IsGamepadUpdate(e) == e.ch = "gamepad-update"
IsEvent(e) == IsStateUpdate(e) \/ IsGamepadUpdate(e)
IsConnectedUpdate(e) == IsStateUpdate(e) /\ e.state.connected
IsDisconnectedUpdate(e) == IsStateUpdate(e) /\ ~e.state.connected
IsHidOpen(e) == e.ch = "HID.open"
IsHidClose(e) == e.ch = "HID.close"
IsHidEnumerate(e) == e.ch = "HID.devices"

\* A gamepad-update with connected = false and every numeric input zero.
IsNeutralGamepadUpdate(e) ==
  /\ IsGamepadUpdate(e)
  /\ ~e.state.connected
  /\ e.state.buttons = 0
  /\ e.state.leftTrigger = 0 /\ e.state.rightTrigger = 0
  /\ e.state.leftStickX = 0 /\ e.state.leftStickY = 0
  /\ e.state.rightStickX = 0 /\ e.state.rightStickY = 0

Events(l) == SelectSeq(l, IsEvent)
Positions(l, P(_)) == {i \in 1..Len(l) : P(l[i])}
Count(l, P(_)) == Cardinality(Positions(l, P))

\* The fields of the service and of the device and timer layers.
serviceState ==
  <<device, devicePath, deviceVendorId, deviceProductId, deviceName, enabled,
    controllerSlot, mainWindow, hotplugTimer, disposed, lastRawBytes, reportLayout,
    profile, lastGamepadState, openHandles, nextHandle, activeTimers>>

(* ------------------------------------------------------------------ *)
(* C1: dispose is irreversible                                           *)
(* ------------------------------------------------------------------ *)

\* C1: once dispose() has been called, no startCapture succeeds: it returns
\* false, opens no device, and isCapturing() stays false.
C1_NoCaptureAfterDispose ==
  disposed =>
    /\ ~isCapturing(This)
    /\ op.name = "startCapture" => (op.ret = "false" /\ Count(log, IsHidOpen) = 0)

(* ------------------------------------------------------------------ *)
(* C2: one device at a time                                              *)
(* ------------------------------------------------------------------ *)

\* The handles opened and not closed are exactly the handle the service holds.
OneHandle ==
  /\ Cardinality(openHandles) <= 1
  /\ openHandles = (IF device = NoDevice THEN {} ELSE {device})

\* In the log l of a startCapture issued while the handle h was open: the close
\* of h comes first, and before any open and any connected state-update.
ClosesFirst(l, h) ==
  /\ Len(l) >= 1
  /\ l[1] = HidClose(h)
  /\ Count(l, IsHidClose) = 1
  /\ \A j \in Positions(l, IsHidOpen) \cup Positions(l, IsConnectedUpdate) : 1 < j

\* ... and the disconnected state-update of the previous session, which names
\* the previous device, is emitted once, before any open and any connected
\* state-update.
DisconnectsFirst(l, name) ==
  /\ Count(l, IsDisconnectedUpdate) = 1
  /\ \A i \in Positions(l, IsDisconnectedUpdate) :
       /\ l[i].state.deviceName = name
       /\ \A j \in Positions(l, IsHidOpen) \cup Positions(l, IsConnectedUpdate) : i < j

\* C2 as claimed: at most one open handle in every state, and a startCapture
\* issued while Capturing closes the previous handle and emits the previous
\* session's disconnected state-update before the new device is opened and
\* before the new session's connected state-update.
C2_Original ==
  /\ [](OneHandle)
  /\ [][(op'.name = "startCapture" /\ isCapturing(This))
          => (ClosesFirst(log', device) /\ DisconnectsFirst(log', deviceName))]_vars

\* C2 amended: at most one open handle in every state; a startCapture issued
\* while Capturing closes the previous handle before the new device is opened;
\* when a live main window is attached it emits the previous session's
\* disconnected state-update before the open and before the new session's
\* connected state-update, and when none is attached it emits no event at all.
C2_OneDeviceAtATime ==
  /\ [](OneHandle)
  /\ [][(op'.name = "startCapture" /\ isCapturing(This))
          => /\ ClosesFirst(log', device)
             /\ ~noWindow(This) => DisconnectsFirst(log', deviceName)
             /\ noWindow(This) => Events(log') = <<>>]_vars

\* A second capture replaced a first one in front of a live window: the log
\* holds the close, the disconnected update, the open and the connected update.
C2_Witness ==
  /\ op.name = "startCapture" /\ op.ret = "true"
  /\ Count(log, IsHidClose) = 1 /\ Count(log, IsHidOpen) = 1
  /\ Count(log, IsDisconnectedUpdate) = 1 /\ Count(log, IsConnectedUpdate) = 1

(* ------------------------------------------------------------------ *)
(* C3: stopCapture is idempotent                                         *)
(* ------------------------------------------------------------------ *)

\* C3: from every reachable state, a second stopCapture right after a first
\* one changes nothing, closes nothing and emits nothing, so the two calls
\* together emit at most one disconnected state-update.
C3_StopIdempotent ==
  LET once == stopCapture(This)
      twice == stopCapture(once)
  IN /\ twice = once
     /\ Count(twice.log, IsDisconnectedUpdate) <= 1
     /\ Count(twice.log, IsHidClose) <= 1

\* A stopCapture has just ended a capture and emitted its disconnected update.
C3_Witness ==
  /\ op.name = "stopCapture"
  /\ Count(log, IsHidClose) = 1
  /\ Count(log, IsDisconnectedUpdate) = 1

(* ------------------------------------------------------------------ *)
(* C4: what stopCapture emits and clears                                 *)
(* ------------------------------------------------------------------ *)

\* The events of a stop: one disconnected state-update, then one neutral
\* gamepad-update.
IsStopEvents(ev) ==
  /\ Len(ev) = 2
  /\ IsDisconnectedUpdate(ev[1])
  /\ IsNeutralGamepadUpdate(ev[2])

\* The retained session state is cleared and nothing is captured.
SessionCleared ==
  /\ IsNull(lastGamepadState)
  /\ lastRawBytes = <<>>
  /\ ~isCapturing(This)

\* C4 as claimed: a stopCapture with no capture active emits no event; a
\* stopCapture while Capturing emits exactly one disconnected state-update
\* followed by exactly one neutral gamepad-update, and leaves the retained
\* gamepad state and raw bytes cleared and isCapturing() false.
C4_Original ==
  [][op'.name = "stopCapture"
       => /\ ~isCapturing(This) => Events(log') = <<>>
          /\ isCapturing(This) => (IsStopEvents(Events(log')) /\ SessionCleared')]_vars

\* C4 amended: a stopCapture with no capture active emits no event; a
\* stopCapture while Capturing with a live main window attached emits exactly
\* one disconnected state-update followed by exactly one neutral
\* gamepad-update, and with no live window it emits no event; either way the
\* retained gamepad state and raw bytes are cleared and isCapturing() is false.
C4_StopEmitsAndClears ==
  [][op'.name = "stopCapture"
       => /\ ~isCapturing(This) => Events(log') = <<>>
          /\ isCapturing(This)
               => /\ ~noWindow(This) => IsStopEvents(Events(log'))
                  /\ noWindow(This) => Events(log') = <<>>
                  /\ SessionCleared']_vars

\* A stopCapture ended a capture in front of a live window.
C4_Witness ==
  /\ op.name = "stopCapture"
  /\ Count(log, IsHidClose) = 1
  /\ IsStopEvents(Events(log))
  /\ SessionCleared

(* ------------------------------------------------------------------ *)
(* C5: the failures of startCapture                                      *)
(* ------------------------------------------------------------------ *)

\* C5: a startCapture made while the subsystem is disabled, or for a path
\* HID.devices() does not list, or whose open fails, returns false (it does
\* not throw), emits no connected state-update, and leaves no device captured.
C5_StartFailures ==
  (op.name = "startCapture" /\ (~enabled \/ ~op.found \/ ~op.openOk))
    => /\ op.ret = "false"
       /\ Count(log, IsConnectedUpdate) = 0
       /\ Count(log, IsHidOpen) = 0
       /\ ~isCapturing(This)

\* The open of a listed device failed while another device was captured in
\* front of a live window: the old capture is gone, no new one exists.
C5_Witness ==
  /\ op.name = "startCapture" /\ enabled /\ op.found /\ ~op.openOk
  /\ op.ret = "false"
  /\ Count(log, IsHidClose) = 1
  /\ Count(log, IsDisconnectedUpdate) = 1

(* ------------------------------------------------------------------ *)
(* C6: a device error is a stop                                          *)
(* ------------------------------------------------------------------ *)

\* C6: an error event of the captured device leaves the service in the state,
\* and emits the events, that stopCapture() leaves and emits from the same
\* state (with a live window: one disconnected state-update, then one neutral
\* gamepad-update); the handler returns normally.
C6_ErrorIsStop ==
  [][op'.name = "error"
       => LET stopped == stopCapture(This) IN
          /\ This' = [stopped EXCEPT !.log = <<>>]
          /\ log' = stopped.log
          /\ op'.ret = "void"
          /\ ~noWindow(This) => IsStopEvents(Events(log'))
          /\ device' = NoDevice /\ devicePath' = NoPath /\ openHandles' = {}
          /\ lastRawBytes' = <<>> /\ lastGamepadState' = None
          /\ UNCHANGED <<deviceVendorId, deviceProductId, deviceName, enabled,
                         controllerSlot, mainWindow, hotplugTimer, disposed,
                         reportLayout, profile, nextHandle, activeTimers>>]_vars

\* A device error ended a capture in front of a live window.
C6_Witness ==
  /\ op.name = "error"
  /\ Count(log, IsHidClose) = 1
  /\ IsStopEvents(Events(log))
  /\ ~isCapturing(This)

(* ------------------------------------------------------------------ *)
(* C7: change suppression                                                *)
(* ------------------------------------------------------------------ *)

\* The fields the change detector is said to compare.
SevenFields(g) ==
  <<g.buttons, g.leftTrigger, g.rightTrigger,
    g.leftStickX, g.leftStickY, g.rightStickX, g.rightStickY>>

\* No state is retained, or the retained one differs from g in a compared field.
DiffersFromRetained(prev, g) ==
  IsNull(prev) \/ SevenFields(Get(prev)) # SevenFields(g)

\* The service holds a device together with a layout and a profile.
CapturingWithLayout ==
  isCapturing(This) /\ ~IsNull(reportLayout) /\ ~IsNull(profile)

\* The gamepad state the buffer data maps to in the current session.
MappedState(data) ==
  mapToGamepad(parseReport(data, Get(reportLayout)), Get(profile), controllerSlot)

\* The log l holds exactly one gamepad-update, and it carries the state g.
EmitsGamepad(l, g) ==
  /\ Count(l, IsGamepadUpdate) = 1
  /\ \A i \in Positions(l, IsGamepadUpdate) : l[i].state = g

\* The last gamepad-update the window was sent in the current session, if any.
LastDelivered == Get(session).delivered

\* C7: in a session with a layout, a buffer produces a gamepad-update if and
\* only if no state is retained yet or the mapped state differs from the
\* retained one in one of buttons, leftTrigger, rightTrigger, leftStickX,
\* leftStickY, rightStickX, rightStickY (connected and controllerId are not
\* compared); so the second of two identical buffers produces none, which
\* with the first buffer of a session makes exactly one, and no two
\* consecutive gamepad-updates of a session are equal in the seven fields.
\* Stated for the buffers processed with a live main window attached.
C7_ChangeSuppression ==
  [][(op'.name = "data" /\ CapturingWithLayout /\ ~noWindow(This))
       => \A g \in {MappedState(op'.data)} :
          /\ DiffersFromRetained(lastGamepadState, g) => EmitsGamepad(log', g)
          /\ ~DiffersFromRetained(lastGamepadState, g) => Count(log', IsGamepadUpdate) = 0
          /\ (op.name = "data" /\ op.data = op'.data)
               => Count(log', IsGamepadUpdate) = 0
          /\ ~IsNull(LastDelivered)
               => \A j \in Positions(log', IsGamepadUpdate) :
                    SevenFields(Get(LastDelivered)) # SevenFields(log'[j].state)]_vars

(* ------------------------------------------------------------------ *)
(* C8: every buffer is forwarded as a state-update                       *)
(* ------------------------------------------------------------------ *)

\* The events of one buffer: one connected state-update carrying the buffer,
\* then at most one gamepad-update.
IsBufferEvents(ev, data) ==
  /\ Len(ev) \in {1, 2}
  /\ IsConnectedUpdate(ev[1])
  /\ ev[1].state.rawBytes = data
  /\ Len(ev) = 2 => IsGamepadUpdate(ev[2])

\* C8 as claimed: every buffer received while Capturing produces exactly one
\* state-update, connected and carrying the buffer as rawBytes, whether or not
\* the gamepad state changed, and a gamepad-update for the buffer comes after
\* that state-update and within the handling of the buffer.
C8_Original ==
  [][(op'.name = "data" /\ isCapturing(This))
       => IsBufferEvents(Events(log'), op'.data)]_vars

\* C8 amended: every buffer received while Capturing with a live main window
\* attached produces exactly one state-update, connected and carrying the
\* buffer as rawBytes, whether or not the gamepad state changed, and a
\* gamepad-update for the buffer comes after that state-update and within the
\* handling of the buffer; with no live window the buffer produces no event.
\* Either way the buffer is kept as the last raw bytes.
C8_EveryBufferForwarded ==
  [][(op'.name = "data" /\ isCapturing(This))
       => /\ ~noWindow(This) => IsBufferEvents(Events(log'), op'.data)
          /\ noWindow(This) => Events(log') = <<>>
          /\ log' = Events(log')
          /\ lastRawBytes' = op'.data]_vars

\* A buffer whose gamepad state changed was forwarded: the state-update
\* carrying its bytes, then the gamepad-update.
C8_Witness ==
  /\ op.name = "data" /\ op.data # <<>>
  /\ Len(log) = 2
  /\ IsConnectedUpdate(log[1]) /\ log[1].state.rawBytes = op.data
  /\ IsGamepadUpdate(log[2])

(* ------------------------------------------------------------------ *)
(* C9: a device without a layout                                         *)
(* ------------------------------------------------------------------ *)

\* Neither the profile of the device at path nor the device defaults supply a
\* report layout.
NoLayoutFor(path) ==
  LET d == DeviceTable[path] IN
  /\ IsNull(getOrCreateProfile(d.vendorId, d.productId, d.product).reportLayout)
  /\ IsNull(knownConfigLayout(d.vendorId, d.productId))

CapturingWithoutLayout ==
  isCapturing(This) /\ devicePath \in Paths /\ NoLayoutFor(devicePath)

\* A raw-only state-update: connected, no axes, no buttons, the bytes verbatim.
IsRawOnlyUpdate(e, data) ==
  /\ IsConnectedUpdate(e)
  /\ e.state.axes = <<>> /\ e.state.buttons = <<>> /\ e.state.hatSwitch = -1
  /\ e.state.rawBytes = data

\* C9 as claimed: while a device without a layout is captured, every buffer
\* yields a raw-only state-update, and the capture never emits a gamepad-update.
C9_Original ==
  [][CapturingWithoutLayout
       => /\ op'.name = "data"
               => (Len(log') = 1 /\ IsRawOnlyUpdate(log'[1], op'.data))
          /\ Count(log', IsGamepadUpdate) = 0]_vars

\* C9 amended: while a device without a layout is captured, also after a
\* device with a layout was captured in the same instance, every buffer
\* received with a live main window attached yields exactly one raw-only
\* state-update (axes = [], buttons = [], rawBytes the verbatim input), a
\* buffer received with no live window yields no event, and no buffer yields
\* a gamepad-update or a retained gamepad state; the only gamepad-update of
\* such a capture is the neutral one emitted when it stops.
C9_RawOnlyWithoutLayout ==
  [][CapturingWithoutLayout
       => /\ IsNull(reportLayout)
          /\ op'.name = "data"
               => /\ ~noWindow(This) => (Len(log') = 1 /\ IsRawOnlyUpdate(log'[1], op'.data))
                  /\ noWindow(This) => log' = <<>>
                  /\ IsNull(lastGamepadState')
          /\ \A i \in Positions(log', IsGamepadUpdate) :
               IsNeutralGamepadUpdate(log'[i]) /\ Count(log', IsHidClose) = 1]_vars

\* The second device captured by the instance has no layout, and a buffer of
\* it was forwarded raw.
C9_Witness ==
  /\ op.name = "data" /\ op.data # <<>>
  /\ CapturingWithoutLayout
  /\ nextHandle >= 2
  /\ Len(log) = 1 /\ IsRawOnlyUpdate(log[1], op.data)

(* ------------------------------------------------------------------ *)
(* C10: the hotplug scan only looks                                      *)
(* ------------------------------------------------------------------ *)

\* C10: a tick of the hotplug timer enumerates the devices exactly when the
\* service is enabled, not disposed and holds no device; it never opens a
\* device, emits no state-update or gamepad-update, and leaves every field of
\* the service (device, profile, layout, retained gamepad state among them)
\* unchanged.
C10_HotplugOnlyLooks ==
  [][op'.name = "hotplugTick"
       => /\ serviceState' = serviceState
          /\ Events(log') = <<>>
          /\ Count(log', IsHidOpen) = 0 /\ Count(log', IsHidClose) = 0
          /\ ~isCapturing(This) => ~isCapturing(This')
          /\ Count(log', IsHidEnumerate)
               = (IF enabled /\ ~disposed /\ ~isCapturing(This) THEN 1 ELSE 0)]_vars

\* A tick found the service enabled and idle and enumerated the devices.
C10_Witness ==
  /\ op.name = "hotplugTick"
  /\ log = <<HidEnumerate>>
  /\ enabled /\ ~disposed /\ ~isCapturing(This) /\ hotplugTimer

(* ------------------------------------------------------------------ *)
(* C11: dispose and the hotplug timer                                    *)
(* ------------------------------------------------------------------ *)

\* C11: once dispose() has run, no hotplug timer is active, whatever calls
\* of initialize, updateConfig, startCapture and stopCapture follow: the
\* service holds no interval and the timer layer has none running.
C11_NoTimerAfterDispose == disposed => (~hotplugTimer /\ activeTimers = 0)

(* ------------------------------------------------------------------ *)
(* C12: the ranges of an emitted gamepad state                           *)
(* ------------------------------------------------------------------ *)

InGamepadRange(g) ==
  /\ g.controllerId \in 0..3
  /\ \A f \in StickTargets : g[f] \in -32768..32767
  /\ \A f \in TriggerTargets : g[f] \in 0..255

\* C12: every gamepad state the service can emit has controllerId in 0..3,
\* its four sticks in -32768..32767 and its two triggers in 0..255: the
\* state mapToGamepad returns for any sample and profile, the neutral state
\* sent on disconnect, and every gamepad-update the last call sent, whatever
\* slot the constructor or updateConfig was given.
C12_EmittedInRange ==
  /\ result # None => InGamepadRange(Get(result))
  /\ InGamepadRange(neutralGamepad(controllerSlot, FALSE))
  /\ \A i \in 1..Len(log) : IsGamepadUpdate(log[i]) => InGamepadRange(log[i].state)

\* A service built with slot 7 has mapped a stick that a sensitivity of 3
\* drives beyond full deflection.
C12_Witness ==
  /\ result # None
  /\ Get(args).fn = "mapToGamepad"
  /\ Get(result).controllerId = 3
  /\ \E i \in 1..Len(Get(args).profile.axisMappings) :
       LET m == Get(args).profile.axisMappings[i] IN
       /\ m.sourceIndex = 0
       /\ m.sensitivity = FInt(3)
       /\ m.target \in StickTargets
       /\ Get(result)[m.target] = -32768

(* ------------------------------------------------------------------ *)
(* C13, C14, C19: parseReport                                            *)
(* ------------------------------------------------------------------ *)

\* The arguments and the result of the parseReport call of this state.
ParseData == Get(args).data
ParseLayout == Get(args).layout
Parsed == Get(result)
HasParsed == result # None /\ Get(args).fn = "parseReport"

\* Where a field starts in the buffer, counted from 0.
FieldStart(f) == (IF ParseLayout.skipReportId THEN 1 ELSE 0) + f.byteOffset
AxisFits(f) == FieldStart(f) + f.byteCount <= Len(ParseData)
ButtonFits(f) == FieldStart(f) < Len(ParseData)

\* The bytes of an axis field, alone in a buffer of their own.
OwnBytes(f) == SubSeq(ParseData, FieldStart(f) + 1, FieldStart(f) + f.byteCount)

\* Bit j of a byte.
Bit(byte, j) == (byte \div Pow2(j)) % 2

\* C13: parseReport returns one axis per axis field and one button per
\* button field for every buffer and layout; an axis field whose bytes do
\* not all lie in the buffer is 0 and a button field whose byte lies outside
\* is false; a field that fits is decoded from its own bytes alone, as if
\* they were the whole buffer.
C13_ShortInput ==
  HasParsed =>
    /\ Len(Parsed.axes) = Len(ParseLayout.axes)
    /\ Len(Parsed.buttons) = Len(ParseLayout.buttons)
    /\ \A i \in 1..Len(ParseLayout.axes) :
         LET f == ParseLayout.axes[i] IN
         IF AxisFits(f)
         THEN Parsed.axes[i] = parseAxis(OwnBytes(f), 0, [f EXCEPT !.byteOffset = 0])
         ELSE Parsed.axes[i] = FInt(0)
    /\ \A i \in 1..Len(ParseLayout.buttons) :
         LET f == ParseLayout.buttons[i] IN
         IF ButtonFits(f)
         THEN Parsed.buttons[i] = (Bit(ParseData[FieldStart(f) + 1], f.bitIndex) = 1)
         ELSE Parsed.buttons[i] = FALSE

\* A two-byte report with a report id: the 2-byte axis does not fit, the
\* first button is read from the second byte and is set, the last button
\* lies outside.
C13_Witness ==
  /\ HasParsed
  /\ Len(ParseData) = 2
  /\ ParseLayout.skipReportId
  /\ Len(ParseLayout.axes) = 1
  /\ ParseLayout.axes[1].byteCount = 2
  /\ ~AxisFits(ParseLayout.axes[1])
  /\ Parsed.axes = <<FInt(0)>>
  /\ Len(ParseLayout.buttons) = 4
  /\ ButtonFits(ParseLayout.buttons[1])
  /\ ~ButtonFits(ParseLayout.buttons[4])
  /\ Parsed.buttons[1]
  /\ ~Parsed.buttons[4]

\* The unsigned value of an axis field that fits.
UnsignedAt(f) ==
  LET bs == OwnBytes(f) IN
  IF f.byteCount = 1 THEN bs[1]
  ELSE IF f.littleEndian THEN bs[1] + 256 * bs[2] ELSE bs[2] + 256 * bs[1]

\* The value as the claim reads it: two's complement unless unsigned.
RawAt(f) ==
  LET half == Pow2(8 * f.byteCount - 1) IN
  IF f.unsigned THEN UnsignedAt(f)
  ELSE ((UnsignedAt(f) + half) % (2 * half)) - half

\* clamp((raw - rangeMin) / (rangeMax - rangeMin), 0, 1), and 0 for an empty range.
NormalizedAt(f) ==
  IF f.rangeMax > f.rangeMin
  THEN IF RawAt(f) <= f.rangeMin THEN FInt(0)
       ELSE IF RawAt(f) >= f.rangeMax THEN FInt(1)
       ELSE FRatio(RawAt(f) - f.rangeMin, f.rangeMax - f.rangeMin)
  ELSE FInt(0)

\* C14: an axis field that fits decodes to clamp((raw - rangeMin) /
\* (rangeMax - rangeMin), 0, 1), to 0 when rangeMax <= rangeMin, raw being
\* the 1- or 2-byte value at the field's place in the declared byte order,
\* taken as signed unless the field is unsigned; every decoded axis is in
\* [0, 1].
C14_AxisValue ==
  HasParsed =>
    \A i \in 1..Len(ParseLayout.axes) :
      /\ AxisFits(ParseLayout.axes[i]) => Parsed.axes[i] = NormalizedAt(ParseLayout.axes[i])
      /\ FGe(Parsed.axes[i], FInt(0))
      /\ FGe(FInt(1), Parsed.axes[i])

\* Bytes FF 03 read as an unsigned little-endian field of range 0..1023
\* give 1.
C14_Witness ==
  /\ HasParsed
  /\ ParseData = <<255, 3>>
  /\ ~ParseLayout.skipReportId
  /\ ParseLayout.axes =
       <<[byteOffset |-> 0, byteCount |-> 2, littleEndian |-> TRUE, unsigned |-> TRUE,
          rangeMin |-> 0, rangeMax |-> 1023]>>
  /\ Parsed.axes = <<FInt(1)>>

\* The hat field has a byte in the buffer.
HatFits == ~IsNull(ParseLayout.hat) /\ FieldStart(Get(ParseLayout.hat)) < Len(ParseData)

\* bitCount bits of the hat byte from bitOffset up, bits beyond the byte being 0.
HatExtracted ==
  LET h == Get(ParseLayout.hat)
      byte == ParseData[FieldStart(h) + 1]
      bits == [j \in 0..(h.bitCount - 1) |-> Bit(byte, h.bitOffset + j) * Pow2(j)]
      Sum[j \in -1..(h.bitCount - 1)] == IF j = -1 THEN 0 ELSE Sum[j - 1] + bits[j]
  IN Sum[h.bitCount - 1]

\* C19: with a hat field whose byte is in the buffer, hatSwitch is -1
\* exactly when the bitCount bits from bitOffset up equal centerValue and is
\* that value, which is not negative, otherwise; without a hat field, or
\* with its byte outside the buffer, hatSwitch is -1.
C19_HatDecoding ==
  HasParsed =>
    IF HatFits
    THEN /\ (Parsed.hatSwitch = -1) <=> (HatExtracted = Get(ParseLayout.hat).centerValue)
         /\ Parsed.hatSwitch # -1 => (Parsed.hatSwitch = HatExtracted /\ Parsed.hatSwitch >= 0)
    ELSE Parsed.hatSwitch = -1

\* A hat byte of 8 under centerValue 8 decodes to -1.
C19_Witness ==
  /\ HasParsed
  /\ HatFits
  /\ Get(ParseLayout.hat) = [byteOffset |-> 0, bitOffset |-> 0, bitCount |-> 4, centerValue |-> 8]
  /\ ParseData[FieldStart(Get(ParseLayout.hat)) + 1] = 8
  /\ Parsed.hatSwitch = -1

(* ------------------------------------------------------------------ *)
(* C15, C16, C17: the value written for a stick and for a trigger        *)
(* ------------------------------------------------------------------ *)

\* The arguments and the result of the mapToGamepad call of this state.
MapParsed == Get(args).parsed
MapProfile == Get(args).profile
Mapped == Get(result)
HasMapped == result # None /\ Get(args).fn = "mapToGamepad"

\* The position of the last axis mapping that writes target t, 0 if none does.
LastWriter(t) ==
  LET ms == MapProfile.axisMappings
      writers == {i \in 1..Len(ms) :
                    ms[i].target = t /\ ms[i].sourceIndex < Len(MapParsed.axes)}
  IN IF writers = {} THEN 0 ELSE CHOOSE i \in writers : \A j \in writers : j <= i

WriterOf(t) == MapProfile.axisMappings[LastWriter(t)]
RawOf(t) == MapParsed.axes[WriterOf(t).sourceIndex + 1]

\* The bipolar value of a stick mapping after the inversion step.
Bipolar(raw, m) ==
  LET v == FSub(FMul(FInt(2), raw), FInt(1)) IN IF m.inverted THEN FNeg(v) ELSE v

\* The claim's v: deadzone and curve applied to the magnitude, the sign of
\* the bipolar value put back at the end.
StickV(raw, m) ==
  LET b == Bipolar(raw, m)
      mag == FDiv(FMax(FInt(0), FSub(FAbs(b), m.deadzone)), FSub(FInt(1), m.deadzone))
      curved == IF m.curve = "expo" THEN FMul(FMul(mag, mag), m.sensitivity)
                ELSE FMul(mag, m.sensitivity)
  IN IF FLt(b, FInt(0)) THEN FNeg(curved) ELSE curved

\* C15 as stated: every stick written equals round(clamp(v, -1, 1) * 32767).
C15_Original ==
  HasMapped =>
    \A t \in StickTargets :
      LastWriter(t) # 0 =>
        Mapped[t] = MathRound(FMul(FMax(FInt(-1), FMin(FInt(1), StickV(RawOf(t), WriterOf(t)))),
                                   FInt(32767)))

\* C15: every stick written equals round(v * 32767) clamped to
\* -32768..32767, v being the result of v = 2 * raw - 1, negation if
\* inverted, the signed deadzone and the curve; a v below -1 by more than
\* half a step therefore gives -32768.
C15_StickValue ==
  HasMapped =>
    \A t \in StickTargets :
      LastWriter(t) # 0 =>
        Mapped[t] = Max(-32768, Min(32767, MathRound(FMul(StickV(RawOf(t), WriterOf(t)),
                                                          FInt(32767)))))

\* A stick at rest on the left with sensitivity 3: v = -3, written as -32768.
C15_Witness ==
  /\ HasMapped
  /\ MapParsed.axes = <<FInt(0)>>
  /\ LastWriter("leftStickY") = 1
  /\ WriterOf("leftStickY").sensitivity = FInt(3)
  /\ WriterOf("leftStickY").curve = "linear"
  /\ WriterOf("leftStickY").deadzone = FInt(0)
  /\ ~WriterOf("leftStickY").inverted
  /\ Mapped.leftStickY = -32768

\* The signed deadzone 0.1 applied to the bipolar value 0.1 gives 0.
TenthAtTenth == applyStickDeadzone(FRatio(1, 10), FRatio(1, 10)) = FInt(0)

\* C16: a stick whose bipolar magnitude is below or exactly at the deadzone
\* is written as 0, for every deadzone, sensitivity and curve (the signed
\* deadzone gives 0 for d = 0.1 and v = 0.1); a bipolar value of exactly 1
\* with sensitivity 1 and the linear curve is written as 32767.
C16_DeadzoneBoundary ==
  /\ TenthAtTenth
  /\ HasMapped =>
       \A t \in StickTargets :
         LastWriter(t) # 0 =>
           \A m \in {WriterOf(t)} :
             \A v \in {Bipolar(RawOf(t), m)} :
               /\ ~FLt(m.deadzone, FAbs(v)) => Mapped[t] = 0
               /\ ( /\ v = FInt(1)
                    /\ m.sensitivity = FInt(1)
                    /\ m.curve = "linear" ) => Mapped[t] = 32767

\* Deadzone 0.5 and v exactly 0.5 (raw 0.75): the stick is written as 0.
\* No raw value in [0, 1] has 2 * raw - 1 equal to the number 0.1.
C16_Witness ==
  /\ HasMapped
  /\ MapParsed.axes = <<FRatio(3, 4)>>
  /\ LastWriter("rightStickX") = 1
  /\ WriterOf("rightStickX").deadzone = FRatio(1, 2)
  /\ WriterOf("rightStickX").sensitivity = FInt(3)
  /\ Bipolar(RawOf("rightStickX"), WriterOf("rightStickX")) = FRatio(1, 2)
  /\ Mapped.rightStickX = 0

\* The claim's c(d(i(raw))) for a trigger.
TriggerV(raw, m) ==
  LET i == IF m.inverted THEN FSub(FInt(1), raw) ELSE raw
      d == IF FLt(i, m.deadzone) THEN FInt(0)
           ELSE FDiv(FSub(i, m.deadzone), FSub(FInt(1), m.deadzone))
  IN IF m.curve = "expo" THEN FMul(m.sensitivity, FMul(d, d)) ELSE FMul(m.sensitivity, d)

\* C17: every trigger written equals round(c(d(i(raw))) * 255) clamped to
\* 0..255, with i the inversion, d the one-sided deadzone and c the curve.
C17_TriggerValue ==
  HasMapped =>
    \A t \in TriggerTargets :
      LastWriter(t) # 0 =>
        Mapped[t] = Max(0, Min(255, MathRound(FMul(TriggerV(RawOf(t), WriterOf(t)),
                                                  FInt(255)))))

\* Expo, sensitivity 1, deadzone-adjusted value 0.5 (raw 0.5 with no
\* deadzone): the trigger is written as 64.
C17_Witness ==
  /\ HasMapped
  /\ MapParsed.axes = <<FRatio(1, 2)>>
  /\ LastWriter("rightTrigger") = 1
  /\ WriterOf("rightTrigger").curve = "expo"
  /\ WriterOf("rightTrigger").sensitivity = FInt(1)
  /\ WriterOf("rightTrigger").deadzone = FInt(0)
  /\ ~WriterOf("rightTrigger").inverted
  /\ Mapped.rightTrigger = 64

(* ------------------------------------------------------------------ *)
(* C18: the hat folded into the D-pad bits                               *)
(* ------------------------------------------------------------------ *)

\* The buttons the same call returns with the hat centred.
ButtonsWithoutHat ==
  mapToGamepad([MapParsed EXCEPT !.hatSwitch = -1], MapProfile, controllerSlot).buttons

HasButton(buttons, mask) == BitOr(buttons, mask) = buttons

\* The directions a hat has added to the buttons base.
HatAdded(buttons, base) ==
  {d \in {<<"up", GAMEPAD_DPAD_UP>>, <<"right", GAMEPAD_DPAD_RIGHT>>,
          <<"down", GAMEPAD_DPAD_DOWN>>, <<"left", GAMEPAD_DPAD_LEFT>>} :
     HasButton(buttons, d[2]) /\ ~HasButton(base, d[2])}

HatDirections(buttons, base) == {d[1] : d \in HatAdded(buttons, base)}

\* C18: where no button mapping has set a D-pad bit, the hat sets Up iff h
\* is 7, 0 or 1, Right iff 1, 2 or 3, Down iff 3, 4 or 5, Left iff 5, 6 or
\* 7: an odd position sets two adjacent directions, no position sets two
\* opposite ones, and -1 or a value above 7 sets none; in every call the
\* buttons are those of the mappings with the hat's bits added and nothing
\* else changed.
C18_HatFolding ==
  HasMapped =>
    \A h \in {MapParsed.hatSwitch} : \A base \in {ButtonsWithoutHat} :
    \A dirs \in {HatDirections(Mapped.buttons, base)} :
      /\ base % 16 = 0 =>
           /\ "up" \in dirs <=> h \in {7, 0, 1}
           /\ "right" \in dirs <=> h \in {1, 2, 3}
           /\ "down" \in dirs <=> h \in {3, 4, 5}
           /\ "left" \in dirs <=> h \in {5, 6, 7}
           /\ (h \in 0..7 /\ h % 2 = 1) =>
                dirs \in {{"up", "right"}, {"right", "down"},
                          {"down", "left"}, {"left", "up"}}
           /\ (h = -1 \/ h > 7) => dirs = {}
      /\ ~({"up", "down"} \subseteq dirs)
      /\ ~({"left", "right"} \subseteq dirs)
      /\ Mapped.buttons \div 16 = base \div 16
      /\ \A mask \in {GAMEPAD_DPAD_UP, GAMEPAD_DPAD_RIGHT, GAMEPAD_DPAD_DOWN, GAMEPAD_DPAD_LEFT} :
           HasButton(base, mask) => HasButton(Mapped.buttons, mask)

\* Position 1 with a pressed button mapped elsewhere: Up and Right, no more.
C18_Witness ==
  /\ HasMapped
  /\ MapParsed.hatSwitch = 1
  /\ ButtonsWithoutHat = 4096
  /\ HatDirections(Mapped.buttons, 4096) = {"up", "right"}
  /\ Mapped.buttons = 4096 + GAMEPAD_DPAD_UP + GAMEPAD_DPAD_RIGHT

(* ------------------------------------------------------------------ *)
(* C20: mappings whose source is not in the sample                       *)
(* ------------------------------------------------------------------ *)

\* The profile without the mappings that point beyond the sample.
PrunedProfile ==
  LET AxisPresent(m) == m.sourceIndex < Len(MapParsed.axes)
      ButtonPresent(m) == m.sourceIndex < Len(MapParsed.buttons)
  IN [axisMappings |-> SelectSeq(MapProfile.axisMappings, AxisPresent),
      buttonMappings |-> SelectSeq(MapProfile.buttonMappings, ButtonPresent)]

\* C20: mapToGamepad returns for a sample and a profile what it returns for
\* the same sample and the profile without the axis mappings whose
\* sourceIndex is at least the number of axes and the button mappings whose
\* sourceIndex is at least the number of buttons.
C20_StaleMappingsInert ==
  HasMapped => Mapped = mapToGamepad(MapParsed, PrunedProfile, controllerSlot)

\* A mapping of axis 1, absent from a one-axis sample, comes after a mapping
\* of axis 0 to the same stick: the stick keeps the value of axis 0.
C20_Witness ==
  /\ HasMapped
  /\ MapParsed.axes = <<FInt(1)>>
  /\ Len(MapProfile.axisMappings) = 2
  /\ MapProfile.axisMappings[2].sourceIndex = 1
  /\ MapProfile.axisMappings[2].target = "leftStickX"
  /\ PrunedProfile.axisMappings = <<FirstMapping>>
  /\ Mapped.leftStickX = 32767

(* ------------------------------------------------------------------ *)
(* C21: the buttons bitmask                                              *)
(* ------------------------------------------------------------------ *)

\* The positions of the bits set in a 16-bit mask.
BitsOf(mask) == {j \in 0..15 : Bit(mask, j) = 1}

\* The button mappings of this call whose source is in the sample and pressed.
PressedMappings ==
  {i \in 1..Len(MapProfile.buttonMappings) :
     /\ MapProfile.buttonMappings[i].sourceIndex < Len(MapParsed.buttons)
     /\ MapParsed.buttons[MapProfile.buttonMappings[i].sourceIndex + 1]}

\* The bits of the D-pad directions a hat position stands for.
HatBitsOf(h) ==
  UNION {IF h \in {7, 0, 1} THEN BitsOf(GAMEPAD_DPAD_UP) ELSE {},
         IF h \in {1, 2, 3} THEN BitsOf(GAMEPAD_DPAD_RIGHT) ELSE {},
         IF h \in {3, 4, 5} THEN BitsOf(GAMEPAD_DPAD_DOWN) ELSE {},
         IF h \in {5, 6, 7} THEN BitsOf(GAMEPAD_DPAD_LEFT) ELSE {}}

\* C21: the bits set in the buttons of a mapped state are exactly the bits
\* of targetButton of the button mappings whose source is in range and
\* pressed, together with the D-pad bits of the hat; no bit lies above
\* bit 15.
C21_ButtonsAreTheOr ==
  HasMapped =>
    /\ Mapped.buttons \in 0..65535
    /\ BitsOf(Mapped.buttons) =
         UNION {BitsOf(MapProfile.buttonMappings[i].targetButton) : i \in PressedMappings}
           \cup HatBitsOf(MapParsed.hatSwitch)

\* Two source buttons mapped to bit 12, only the second pressed, hat at 4:
\* bit 12 and Down.
C21_Witness ==
  /\ HasMapped
  /\ MapParsed.buttons = <<FALSE, TRUE>>
  /\ MapParsed.hatSwitch = 4
  /\ MapProfile.buttonMappings =
       <<[sourceIndex |-> 0, targetButton |-> 4096], [sourceIndex |-> 1, targetButton |-> 4096]>>
  /\ PressedMappings = {2}
  /\ Mapped.buttons = 4096 + GAMEPAD_DPAD_DOWN

(* ------------------------------------------------------------------ *)
(* C27: a disabled subsystem                                             *)
(* ------------------------------------------------------------------ *)

\* Nothing is captured and no hotplug timer runs.
Quiet == ~isCapturing(This) /\ openHandles = {} /\ ~hotplugTimer /\ activeTimers = 0

\* An updateConfig step that switches enabled from true to false.
Disabling == op'.name = "updateConfig" /\ enabled /\ ~enabled'
\* An updateConfig step that switches enabled from false to true.
Enabling == op'.name = "updateConfig" /\ ~enabled /\ enabled'

\* The scan is started and no device is touched.
ScanStartedOnly ==
  /\ hotplugTimer' /\ activeTimers' = 1
  /\ ~isCapturing(This)'
  /\ Count(log', IsHidOpen) = 0
  /\ UNCHANGED <<openHandles, nextHandle>>

\* C27 as claimed: while enabled is false nothing is captured and no hotplug
\* timer is active; updateConfig switching enabled from true to false stops
\* an active capture, emitting its disconnected state-update, and the scan;
\* switching from false to true starts the scan and opens no device.
C27_Original ==
  /\ [](~enabled => Quiet)
  /\ [][Disabling => /\ Quiet'
                     /\ isCapturing(This) => Count(log', IsDisconnectedUpdate) = 1]_vars
  /\ [][Enabling => ScanStartedOnly]_vars

\* C27 amended: as claimed, except that the disconnected state-update of the
\* stopped capture is emitted when a live main window is attached, and no
\* event is emitted otherwise.
C27_DisabledIsIdle ==
  /\ [](~enabled => Quiet)
  /\ [][Disabling => /\ Quiet'
                     /\ (isCapturing(This) /\ ~noWindow(This))
                          => (Count(log', IsHidClose) = 1 /\ IsStopEvents(Events(log')))
                     /\ (isCapturing(This) /\ noWindow(This))
                          => (Count(log', IsHidClose) = 1 /\ Events(log') = <<>>)
                     /\ ~isCapturing(This) => log' = <<>>]_vars
  /\ [][Enabling => ScanStartedOnly]_vars

\* updateConfig has just disabled the subsystem during a capture, in front
\* of a live window.
C27_Witness ==
  /\ op.name = "updateConfig"
  /\ ~enabled
  /\ Quiet
  /\ Count(log, IsHidClose) = 1
  /\ IsStopEvents(Events(log))

(* ------------------------------------------------------------------ *)
(* C22, C23: callbacks during and after the close of a handle            *)
(* ------------------------------------------------------------------ *)

\* C22: a stopCapture whose close() is answered by an error callback
\* closes the handle at most once and leaves nothing captured; in front of
\* a live window it emits exactly one disconnected state-update followed by
\* one neutral gamepad-update.
C22_ReentrantStop ==
  [][op'.name = "stopCaptureErrorInClose"
       => /\ Count(log', IsHidClose) <= 1
          /\ ~noWindow(This) => IsStopEvents(Events(log'))
          /\ SessionCleared'
          /\ devicePath' = NoPath]_vars

\* C23: a data or error event of a handle that has been closed changes no
\* field of the service, closes nothing and emits no event.
C23_LateCallbacksIgnored ==
  [][op'.name \in {"lateData", "lateError"}
       => (UNCHANGED serviceState /\ log' = <<>>)]_vars

(* ------------------------------------------------------------------ *)
(* C24: the retained state and the state the window was sent             *)
(* ------------------------------------------------------------------ *)

\* The gamepad state onHidData maps the buffer of the last data callback to.
MappedOfLastBuffer ==
  mapToGamepad(parseReport(op.data, Get(reportLayout)), Get(profile), controllerSlot)

\* A buffer of a capture session with a resolved layout has just been
\* processed.
BufferProcessed ==
  /\ op.name = "data"
  /\ device # NoDevice
  /\ ~IsNull(reportLayout)
  /\ ~IsNull(profile)

\* C24: after any buffer of a session with a layout, whatever the
\* interleaving of setMainWindow and window destruction, the most recent
\* gamepad-update delivered in the session equals the mapped state of that
\* buffer in the seven compared fields, unless no window was available;
\* stated for the buffers processed with a live window attached.
C24_DeliveredIsLastMapped ==
  (BufferProcessed /\ mainWindow = "live")
    => /\ ~IsNull(Get(session).delivered)
       /\ ~hasGamepadStateChanged(Get(session).delivered, MappedOfLastBuffer)

(* ------------------------------------------------------------------ *)
(* C25: the slots fed in a session are neutralised at its end            *)
(* ------------------------------------------------------------------ *)

\* The step ends a capture session: the handle of the session is no longer
\* this.device.
SessionEnds == device # NoDevice /\ device' # device

\* The log holds a neutral gamepad-update for controllerId c.
Neutralised(l, c) ==
  \E i \in 1..Len(l) : IsNeutralGamepadUpdate(l[i]) /\ l[i].state.controllerId = c

\* C25: every controllerId that received a gamepad-update with connected =
\* true during a capture session receives a neutral gamepad-update with
\* connected = false and the same controllerId when the session ends, also
\* when updateConfig changed the slot during the session; stated for the
\* sessions that end with a live window attached.
C25_FedSlotsNeutralised ==
  [][(SessionEnds /\ mainWindow = "live")
       => \A c \in Get(session).fed : Neutralised(log', c)]_vars

(* ------------------------------------------------------------------ *)
(* C26: the first buffer of a session is always reported                 *)
(* ------------------------------------------------------------------ *)

\* The step processes the first buffer of a capture session whose device
\* has a resolved layout.
FirstBuffer ==
  /\ op'.name = "data"
  /\ Get(session).buffers = 0
  /\ ~IsNull(reportLayout)
  /\ ~IsNull(profile)

\* The log holds a gamepad-update with connected = true that carries the
\* state the service retains.
RetainedEmitted ==
  \E i \in 1..Len(log) :
     /\ IsGamepadUpdate(log[i])
     /\ log[i].state.connected
     /\ lastGamepadState = Some(log[i].state)

\* C26 as claimed: the first buffer processed after every successful
\* startCapture of a device with a layout produces a gamepad-update.
C26_Original ==
  [][FirstBuffer => RetainedEmitted']_vars

\* C26: the first buffer processed after every successful startCapture of
\* a device with a layout produces a gamepad-update carrying the state it
\* leaves retained when a live main window is attached, also when that
\* state is identical to the last state of the session before; without a
\* live window it produces no event.
C26_FirstBufferEmits ==
  [][FirstBuffer => IF mainWindow = "live" THEN RetainedEmitted' ELSE log' = <<>>]_vars

\* The first buffer of a second session has been reported although its
\* mapped state repeats the state retained at the end of the first session.
C26_Witness ==
  /\ op.name = "data"
  /\ ~IsNull(session)
  /\ Get(session).buffers = 1
  /\ Get(session).repeats
  /\ mainWindow = "live"
  /\ RetainedEmitted
  /\ ~hasGamepadStateChanged(lastGamepadState, MappedOfLastBuffer)

====
